---- MODULE Spec2Model ----
(***************************************************************************)
(* Model of the order pricing and creation engine of yoko-cafe-app:        *)
(* server/src/handlers/create_order.ts over the tables of                  *)
(* server/src/db/schema.ts, with the catalog handler createSizePricing     *)
(* and the handlers updateOrderStatus, createPayment and                   *)
(* updatePaymentStatus that act on the orders it creates, the menu         *)
(* handlers updateMenuItem and createMenuCategory, and the cart and        *)
(* checkout of the client (client/src/App.tsx, components/Cart.tsx).       *)
(*                                                                         *)
(* Money.  A numeric(10,2) column holds whole cents, as an integer.  A      *)
(* JavaScript number is an IEEE 754 double, computed here bit for bit:     *)
(* parseFloat of a column is ParseFloat, + and * are FAdd and FMul         *)
(* (round to nearest, ties to even), and storing number.toString() in a    *)
(* numeric(10,2) column is ToNumeric: the shortest decimal that reads back *)
(* as the double, rounded to the cent, halves away from zero, as           *)
(* PostgreSQL rounds.  Mantissas are longer than an integer of the model   *)
(* checker, so they are kept in limbs.                                     *)
(***************************************************************************)
EXTENDS Integers, Sequences, FiniteSets, TLC

VARIABLES
    clock,          \* Date.now(), in milliseconds
    menu_items,     \* rows of menuItemsTable
    size_pricing,   \* rows of sizePricingTable
    orders,         \* rows of ordersTable
    order_items,    \* rows of orderItemsTable
    seq,            \* the serial sequences of the tables
    call,           \* the invocations of createOrder: locals and position
    payments,       \* rows of paymentsTable
    op,             \* the invocations of the other handlers: locals and position
    menu_categories, \* rows of menuCategoriesTable
    cart,           \* App: the cart state, a list of CartItem
    ui              \* Cart and App: the checkout form, isSubmitting, currentOrder

vars == <<clock, menu_items, size_pricing, orders, order_items, seq, call, payments, op,
          menu_categories, cart, ui>>

----------------------------------------------------------------------------
(* Bounds of the model *)

MaxClock == 1
MaxCalls == 2
MaxLines == 2
MaxOps == 2
MaxPayments == 1
MaxSizePricing == 3
MaxOrderPayments == 2
MaxCartLines == 2
MaxQuantity == 2
MaxClientOrders == 1

----------------------------------------------------------------------------
(* Program constants *)

NULL == "null"

----------------------------------------------------------------------------
(* Evaluation order *)

\* F of the value of e: e is evaluated once and its value named, as a const
\* declaration does
Let(e, F(_)) == CHOOSE r \in { F(v) : v \in {e} } : TRUE

\* F of the values of e1 and e2
Let2(e1, e2, F(_, _)) == CHOOSE r \in { F(v[1], v[2]) : v \in {<<e1, e2>>} } : TRUE

----------------------------------------------------------------------------
(* Natural numbers of up to W limbs *)

\* limbs of 14 bits, little-endian, W limbs to a number
LimbBits == 14
B == 2^LimbBits
W == 8

Limbs == 1 .. W

RECURSIVE CarryFrom(_, _, _)
CarryFrom(raw, i, c) ==
    IF i > W THEN <<>>
    ELSE Let(raw[i] + c, LAMBDA t : <<t % B>> \o CarryFrom(raw, i + 1, t \div B))

\* limbs brought back into 0 .. B - 1, carries and borrows moved up
Carry(raw) == Let(raw, LAMBDA r : CarryFrom(r, 1, 0))

BigZero == Carry([i \in Limbs |-> 0])

\* a natural below 2^31 as a big number
BigOf(n) == Let(n, LAMBDA v : Carry([i \in Limbs |-> IF i = 1 THEN v ELSE 0]))

\* the value of a big number known to be below 2^31
IntOf(a) == Let(a, LAMBDA x : x[1] + B * x[2] + B * B * x[3])

BigAdd(a, b) == Let2(a, b, LAMBDA x, y : Carry([i \in Limbs |-> x[i] + y[i]]))

\* a - b, for a >= b
BigSub(a, b) == Let2(a, b, LAMBDA x, y : Carry([i \in Limbs |-> x[i] - y[i]]))

Limb(a, i) == IF i \in Limbs THEN a[i] ELSE 0

\* a * b, for a and b of at most four limbs
BigMul(a, b) ==
    Let2(a, b, LAMBDA x, y :
        Carry([k \in Limbs |->
                 x[1] * Limb(y, k) + x[2] * Limb(y, k - 1)
               + x[3] * Limb(y, k - 2) + x[4] * Limb(y, k - 3)]))

RECURSIVE CmpFrom(_, _, _)
CmpFrom(a, b, i) ==
    IF i = 0 THEN 0
    ELSE IF a[i] > b[i] THEN 1
    ELSE IF a[i] < b[i] THEN -1
    ELSE CmpFrom(a, b, i - 1)

\* -1, 0 or 1 as a is below, equal to or above b
BigCmp(a, b) == Let2(a, b, LAMBDA x, y : CmpFrom(x, y, W))

\* a * 2^n
BigShl(a, n) ==
    Let2(a, n, LAMBDA x, m :
        Let2(m \div LimbBits, 2^(m % LimbBits), LAMBDA q, p :
            Carry([i \in Limbs |-> Limb(x, i - q) * p])))

\* floor(a / 2^n)
BigShr(a, n) ==
    Let2(a, n, LAMBDA x, m :
        Let2(m \div LimbBits, 2^(m % LimbBits), LAMBDA q, p :
            Carry([i \in Limbs |-> (Limb(x, i + q) \div p)
                                    + (Limb(x, i + q + 1) % p) * (B \div p)])))

\* the number of bits of a limb
LimbLength(x) ==
    Let(x, LAMBDA v : CHOOSE k \in 0 .. LimbBits : v < 2^k /\ (k = 0 \/ v >= 2^(k - 1)))

\* the number of bits of a big number
BitLength(a) ==
    Let(a, LAMBDA x :
        IF x = BigZero THEN 0
        ELSE Let(CHOOSE i \in Limbs : x[i] # 0 /\ \A j \in Limbs : j > i => x[j] = 0,
                 LAMBDA t : LimbBits * (t - 1) + LimbLength(x[t])))

RECURSIVE DivFrom(_, _, _, _)
DivFrom(a, d, i, rem) ==
    IF i = 0 THEN [q |-> <<>>, r |-> rem]
    ELSE Let(rem * B + a[i], LAMBDA t :
         Let(DivFrom(a, d, i - 1, t % d), LAMBDA rest :
             [q |-> Append(rest.q, t \div d), r |-> rest.r]))

\* quotient and remainder of a by a small d
BigDivSmall(a, d) == Let2(a, d, LAMBDA x, y : DivFrom(x, y, W, 0))

\* a JavaScript number, IEEE 754 binary64: sign * man * 2^exp with man of
\* exactly ManBits bits, or zero; no infinities, NaN or subnormals arise here

ManBits == 53

FZero == [sign |-> 1, man |-> BigZero, exp |-> 0]

\* n * 2^e rounded to the nearest double, halves to even
RoundToDouble(sign, n, e) ==
    Let2(n, e, LAMBDA x, ex :
    Let(BitLength(x) - ManBits, LAMBDA sh :
        IF sh = -ManBits THEN FZero
        ELSE IF sh <= 0 THEN [sign |-> sign, man |-> BigShl(x, -sh), exp |-> ex + sh]
        ELSE
    Let(BigShr(x, sh), LAMBDA q :
    Let(BigCmp(BigSub(x, BigShl(q, sh)), BigShl(BigOf(1), sh - 1)), LAMBDA c :
    Let(IF c > 0 \/ (c = 0 /\ q[1] % 2 = 1) THEN BigAdd(q, BigOf(1)) ELSE q, LAMBDA q2 :
        IF BitLength(q2) > ManBits
        THEN [sign |-> sign, man |-> BigShr(q2, 1), exp |-> ex + sh + 1]
        ELSE [sign |-> sign, man |-> q2, exp |-> ex + sh])))))

FMul(x, y) ==
    Let2(x, y, LAMBDA a, b :
        IF a.man = BigZero \/ b.man = BigZero THEN FZero
        ELSE RoundToDouble(a.sign * b.sign, BigMul(a.man, b.man), a.exp + b.exp))

FAdd(x, y) ==
    Let2(x, y, LAMBDA a, b :
        IF a.man = BigZero THEN b
        ELSE IF b.man = BigZero THEN a
        ELSE
    Let(IF a.exp < b.exp THEN a.exp ELSE b.exp, LAMBDA e :
    Let2(BigShl(a.man, a.exp - e), BigShl(b.man, b.exp - e), LAMBDA m, n :
        IF a.sign = b.sign THEN RoundToDouble(a.sign, BigAdd(m, n), e)
        ELSE IF BigCmp(m, n) >= 0 THEN RoundToDouble(a.sign, BigSub(m, n), e)
        ELSE RoundToDouble(b.sign, BigSub(n, m), e))))

\* the double nearest to sign * n / d, for naturals n < 2^28 and 0 < d <= 1000
FDecimal(sign, n, d) ==
    Let(BigDivSmall(BigShl(BigOf(n), 70), d), LAMBDA qr :
        RoundToDouble(sign,
                      BigAdd(BigShl(qr.q, 1), BigOf(IF qr.r = 0 THEN 0 ELSE 1)),
                      -71))

\* |x| >= |y|
FMagGeq(x, y) ==
    Let2(x, y, LAMBDA a, b :
        IF b.man = BigZero THEN TRUE
        ELSE IF a.man = BigZero THEN FALSE
        ELSE a.exp > b.exp \/ (a.exp = b.exp /\ BigCmp(a.man, b.man) >= 0))

\* floor(|x| * 100)
FloorCents(x) ==
    Let(x, LAMBDA a :
    Let(BigMul(a.man, BigOf(100)), LAMBDA n :
        IntOf(IF a.exp >= 0 THEN BigShl(n, a.exp) ELSE BigShr(n, -a.exp))))

\* x.toString() stored in a numeric(10,2) column, in cents: the shortest
\* decimal of x lies on the side of a half cent that x lies on, and is the
\* half cent itself when x is the double nearest to it
ToNumeric(x) ==
    Let(x, LAMBDA a :
        IF a.man = BigZero THEN 0
        ELSE Let(FloorCents(a), LAMBDA n :
                 IF FMagGeq(a, FDecimal(1, 2 * n + 1, 200)) THEN a.sign * (n + 1)
                 ELSE a.sign * n))

----------------------------------------------------------------------------
(* Conversions between numeric(10,2) columns and JavaScript numbers *)

Abs(x) == IF x < 0 THEN -x ELSE x

Sign(x) == IF x < 0 THEN -1 ELSE 1

\* an integer as a JavaScript number
Num(n) == FDecimal(Sign(n), Abs(n), 1)

\* parseFloat(column), the column holding so many cents
ParseFloat(cents) == FDecimal(Sign(cents), Abs(cents), 100)

\* const TAX_RATE = 0.1
TAX_RATE == FDecimal(1, 1, 10)

\* const EXTRA_SHOT_PRICE = 0.75
EXTRA_SHOT_PRICE == FDecimal(1, 75, 100)

----------------------------------------------------------------------------
(* Rows and inputs *)

\* a row of menu_items: the columns that the seeded rows differ in, the
\* others as the seed sets them
MenuItemRow(id, name, base_price, is_available, has_size_options, max_extra_shots) ==
    [id |-> id, category_id |-> 1, name |-> name, description |-> "A test item",
     base_price |-> base_price,
     is_available |-> is_available, has_size_options |-> has_size_options,
     has_milk_options |-> FALSE,
     max_extra_shots |-> max_extra_shots, sort_order |-> 0,
     image_url |-> "https://example.com/item.jpg",
     created_at |-> 0, updated_at |-> 0]

\* createOrderItemInputSchema
Selection(m, q, s, x) ==
    [menu_item_id |-> m, quantity |-> q, size |-> s, milk_type |-> NULL,
     extra_shots |-> x, special_instructions |-> NULL]

\* createOrderInputSchema
OrderInput(name, items) ==
    [customer_name |-> name, customer_phone |-> NULL, items |-> items,
     special_instructions |-> NULL, payment_method |-> "credit_card"]

NoInput == OrderInput(NULL, <<>>)

\* what a rejected createOrder throws; kind "none" while nothing is thrown
Err(kind, id, name, max) ==
    [kind |-> kind, menu_item_id |-> id, name |-> name, max |-> max]

NoError == Err("none", 0, "", 0)

\* `YC${Date.now()}`
OrderNumber(now) == <<"YC", now>>

\* the locals of one invocation of createOrder
IdleCall ==
    [pc |-> "idle", input |-> NoInput, orderNumber |-> OrderNumber(0), idx |-> 0,
     menuItems |-> <<>>, unitPrice |-> FZero, subtotal |-> FZero,
     orderItemsData |-> <<>>, taxAmount |-> FZero, totalAmount |-> FZero, orderResult |-> <<>>, result |-> <<>>,
     error |-> NoError]

Calls == 1 .. MaxCalls

\* a row of menu_categories
MenuCategoryRow(id, name, description, sort_order, is_active, created_at) ==
    [id |-> id, name |-> name, description |-> description, sort_order |-> sort_order,
     is_active |-> is_active, created_at |-> created_at]

\* the category that the seeded menu items belong to
SeedCategories == { MenuCategoryRow(1, "Coffee", NULL, 1, TRUE, 0) }

\* the state of the Cart form and of App when the page has loaded: empty
\* fields, nothing being submitted, no current order (null); pc is the
\* position of handleCheckout and submitted the cart that it captured
InitialUi ==
    [customerName |-> "", customerPhone |-> "", specialInstructions |-> "",
     paymentMethod |-> "", isSubmitting |-> FALSE, currentOrder |-> <<>>,
     pc |-> "idle", submitted |-> <<>>]

\* an invocation of another handler: its position, its input, the rows its
\* select returned, the row it returns and the error it throws
IdleOp == [pc |-> "idle", input |-> <<>>, existing |-> <<>>, result |-> <<>>,
           error |-> NoError]

Ops == 1 .. MaxOps

----------------------------------------------------------------------------
(* The input sets of the two specifications *)

\* ids of the seeded menu items, and one id that no menu item has
MenuIds == {1, 2, 3}
MissingId == 4

InputQuantities == {1, 2}

InputSizes == {NULL, "large"}

\* extra_shots values: none, up to and beyond the seeded maxima
InputShots == {0, 2}

Selections ==
    { Selection(m, q, s, x) : m \in MenuIds \cup {MissingId}, q \in InputQuantities,
                              s \in InputSizes, x \in InputShots }

SeqsUpTo(S, n) == UNION { [1 .. k -> S] : k \in 1 .. n }

\* every schema-valid cart of at most MaxLines lines
PricingInputs == { OrderInput(NULL, items) : items \in SeqsUpTo(Selections, MaxLines) }

\* the carts of the concurrent specification: a one-line cart, a two-line
\* cart with a size and extra shots, and a cart whose second line is invalid
ConcurrentInputs ==
    { OrderInput("John Doe", <<Selection(1, 1, NULL, 0)>>),
      OrderInput(NULL, <<Selection(2, 2, "large", 1), Selection(1, 1, NULL, 1)>>),
      OrderInput(NULL, <<Selection(1, 1, NULL, 0), Selection(3, 1, NULL, 0)>>) }

\* createSizePricingInputSchema: any number is a price_modifier
SizePricingInput(m, s, p) == [menu_item_id |-> m, size |-> s, price_modifier |-> p]

SizePricingInputs ==
    { SizePricingInput(1, "large", 200), SizePricingInput(2, "small", 200),
      SizePricingInput(2, "large", 200), SizePricingInput(2, "large", -500),
      SizePricingInput(MissingId, "large", 200) }

\* the size pricing set up while orders are being placed
ConcurrentSizePricingInputs ==
    { sp \in SizePricingInputs : sp.menu_item_id = 2 /\ sp.size = "large" }

----------------------------------------------------------------------------
(* Initial state: a seeded catalog, no size pricing, no orders *)

SeedCatalog ==
    { MenuItemRow(1, "Test Coffee", 500, TRUE, FALSE, 1),
      MenuItemRow(2, "Test Latte", 455, TRUE, TRUE, 2),
      MenuItemRow(3, "Unavailable Item", 300, FALSE, TRUE, 0) }

Init ==
    /\ clock = 0
    /\ menu_items = SeedCatalog
    /\ size_pricing = {}
    /\ orders = {}
    /\ order_items = {}
    /\ seq = [size_pricing |-> 0, orders |-> 0, order_items |-> 0, payments |-> 0,
              menu_categories |-> 1]
    /\ call = [c \in Calls |-> IdleCall]
    /\ payments = {}
    /\ op = [i \in Ops |-> IdleOp]
    /\ menu_categories = SeedCategories
    /\ cart = <<>>
    /\ ui = InitialUi

----------------------------------------------------------------------------
(* createOrder, one action per database round trip *)

\* the line of the cart that the loop is at
CurrentItem(cr) == cr.input.items[cr.idx]

\* throw: the catch block logs and rethrows, the invocation ends rejected
Thrown(cr, error) == [cr EXCEPT !.pc = "failed", !.error = error]

\* const taxAmount = subtotal * TAX_RATE
TaxAmount(subtotal) == FMul(subtotal, TAX_RATE)

\* const totalAmount = subtotal + taxAmount
TotalAmount(subtotal, taxAmount) == FAdd(subtotal, taxAmount)

\* unitPrice += item.extra_shots * EXTRA_SHOT_PRICE, when extra_shots > 0
WithExtraShots(unitPrice, extra_shots) ==
    IF extra_shots > 0
    THEN FAdd(unitPrice, FMul(Num(extra_shots), EXTRA_SHOT_PRICE))
    ELSE unitPrice

\* the loop over input.items stops after the line it is at
LastLineOnly(cr) == FALSE

\* for (const item of input.items): there is a line after the one it is at
HasMoreLines(cr) == cr.idx < Len(cr.input.items)

\* the extra shots check with the maximum itself refused
ExceedsLimitAtMaximum(item, menuItem) ==
    item.extra_shots > 0 /\ item.extra_shots >= menuItem.max_extra_shots

\* if (item.extra_shots > 0) { if (item.extra_shots > menuItem.max_extra_shots) throw
ExceedsLimit(item, menuItem) ==
    item.extra_shots > 0 /\ item.extra_shots > menuItem.max_extra_shots

\* the rest of the loop body once the size modifier is settled: the extra
\* shots check and price, the line total, the push, and the next line or
\* the tax and total after the last line
PriceLine(cr, menuItem, unit) ==
    LET item == CurrentItem(cr)
    IN  IF ExceedsLimit(item, menuItem)
        THEN Thrown([cr EXCEPT !.menuItems = <<menuItem>>, !.unitPrice = unit],
                    Err("LimitExceeded", 0, menuItem.name, menuItem.max_extra_shots))
        ELSE
    Let(WithExtraShots(unit, item.extra_shots), LAMBDA unitPrice :
    Let(FMul(unitPrice, Num(item.quantity)), LAMBDA totalItemPrice :
    Let(FAdd(cr.subtotal, totalItemPrice), LAMBDA subtotal :
    Let([cr EXCEPT !.menuItems = <<menuItem>>,
                   !.unitPrice = unitPrice,
                   !.subtotal = subtotal,
                   !.orderItemsData =
                       Append(@, [menu_item_id |-> item.menu_item_id,
                                  quantity |-> item.quantity,
                                  size |-> item.size,
                                  milk_type |-> item.milk_type,
                                  extra_shots |-> item.extra_shots,
                                  unit_price |-> unitPrice,
                                  total_price |-> totalItemPrice,
                                  special_instructions |-> item.special_instructions])],
        LAMBDA pushed :
        IF HasMoreLines(cr)
        THEN [pushed EXCEPT !.idx = cr.idx + 1, !.pc = "select_item"]
        ELSE Let(TaxAmount(subtotal), LAMBDA taxAmount :
                 [pushed EXCEPT !.pc = "insert_order",
                                !.taxAmount = taxAmount,
                                !.totalAmount = TotalAmount(subtotal, taxAmount)])))))

\* the invocation starts: the order number is taken from the clock
Begin(c, inputs) ==
    /\ call[c].pc = "idle"
    /\ \E input \in inputs :
         call' = [call EXCEPT ![c] = [IdleCall EXCEPT !.pc = "select_item",
                                                      !.input = input,
                                                      !.orderNumber = OrderNumber(clock),
                                                      !.idx = 1]]
    /\ UNCHANGED <<clock, menu_items, size_pricing, orders, order_items, seq, payments, op, menu_categories, cart, ui>>

\* the availability check left out
UnavailableNever(menuItem) == FALSE

\* if (!menuItem.is_available) throw
Unavailable(menuItem) == ~ menuItem.is_available

\* select from menu_items where id = item.menu_item_id, and what follows it
\* up to the next query
SelectMenuItem(c) ==
    LET cr == call[c]
        item == CurrentItem(cr)
        menuItems == { m \in menu_items : m.id = item.menu_item_id }
    IN  /\ cr.pc = "select_item"
        /\ IF menuItems = {}
           THEN call' = [call EXCEPT ![c] =
                    Thrown([cr EXCEPT !.menuItems = <<>>],
                           Err("NotFound", item.menu_item_id, "", 0))]
           ELSE \E menuItem \in menuItems :
                  IF Unavailable(menuItem)
                  THEN call' = [call EXCEPT ![c] =
                           Thrown([cr EXCEPT !.menuItems = <<menuItem>>],
                                  Err("Unavailable", 0, menuItem.name, 0))]
                  ELSE IF item.size # NULL /\ menuItem.has_size_options
                  THEN call' = [call EXCEPT ![c] =
                           [cr EXCEPT !.pc = "select_size",
                                      !.menuItems = <<menuItem>>,
                                      !.unitPrice = ParseFloat(menuItem.base_price)]]
                  ELSE call' = [call EXCEPT ![c] =
                           PriceLine(cr, menuItem, ParseFloat(menuItem.base_price))]
        /\ UNCHANGED <<clock, menu_items, size_pricing, orders, order_items, seq, payments, op, menu_categories, cart, ui>>

\* the first row of the item, whatever its size
AnySize(sp, item) == TRUE

\* sizePricingResults.find(sp => sp.size === item.size)
SameSize(sp, item) == sp.size = item.size

\* select from size_pricing where menu_item_id = item.menu_item_id, then
\* find the row of the requested size (any one, were there several)
SelectSizePricing(c) ==
    LET cr == call[c]
        item == CurrentItem(cr)
        sizePricingResults == { sp \in size_pricing : sp.menu_item_id = item.menu_item_id }
        found == { sp \in sizePricingResults : SameSize(sp, item) }
    IN  /\ cr.pc = "select_size"
        /\ IF found = {}
           THEN call' = [call EXCEPT ![c] = PriceLine(cr, cr.menuItems[1], cr.unitPrice)]
           ELSE \E sizeModifier \in found :
                  call' = [call EXCEPT ![c] =
                      PriceLine(cr, cr.menuItems[1],
                                FAdd(cr.unitPrice,
                                     ParseFloat(sizeModifier.price_modifier)))]
        /\ UNCHANGED <<clock, menu_items, size_pricing, orders, order_items, seq, payments, op, menu_categories, cart, ui>>

\* order_number without its unique constraint
OrderNumberFree(order_number) == FALSE

\* the unique constraint on orders.order_number
OrderNumberTaken(order_number) == \E o \in orders : o.order_number = order_number

\* the conflicting insert skipped in silence, the invocation going on
InsertSkipped(cr) == [cr EXCEPT !.pc = "done"]

\* the rejected insert: await db.insert(...) throws
InsertRejected(cr) == Thrown(cr, Err("UniqueViolation", 0, "", 0))

\* the orders row with the payment method of the input noted in it
NewOrderNotingMethod(cr, id, now) ==
    [id |-> id,
     customer_id |-> NULL,
     order_number |-> cr.orderNumber,
     status |-> "pending",
     total_amount |-> ToNumeric(cr.totalAmount),
     tax_amount |-> ToNumeric(cr.taxAmount),
     customer_name |-> cr.input.customer_name,
     customer_phone |-> cr.input.customer_phone,
     special_instructions |-> cr.input.payment_method,
     estimated_ready_time |-> NULL,
     created_at |-> now,
     updated_at |-> now]

\* the row of the orders insert: the values of the handler, the serial id
\* and the column defaults (customer_id and estimated_ready_time null,
\* created_at and updated_at now)
NewOrder(cr, id, now) ==
    [id |-> id,
     customer_id |-> NULL,
     order_number |-> cr.orderNumber,
     status |-> "pending",
     total_amount |-> ToNumeric(cr.totalAmount),
     tax_amount |-> ToNumeric(cr.taxAmount),
     customer_name |-> cr.input.customer_name,
     customer_phone |-> cr.input.customer_phone,
     special_instructions |-> cr.input.special_instructions,
     estimated_ready_time |-> NULL,
     created_at |-> now,
     updated_at |-> now]

\* insert into orders ... returning
InsertOrder(c) ==
    LET cr == call[c]
        row == NewOrder(cr, seq.orders + 1, clock)
    IN  /\ cr.pc = "insert_order"
        /\ seq' = [seq EXCEPT !.orders = seq.orders + 1]
        /\ IF OrderNumberTaken(cr.orderNumber)
           THEN /\ call' = [call EXCEPT ![c] = InsertRejected(cr)]
                /\ orders' = orders
           ELSE /\ orders' = orders \cup {row}
                /\ call' = [call EXCEPT ![c] =
                       [cr EXCEPT !.pc = "insert_items", !.orderResult = <<row>>]]
        /\ UNCHANGED <<clock, menu_items, size_pricing, order_items, payments, op, menu_categories, cart, ui>>

\* the returned order with another status than the stored one
ReturnedAsConfirmed(order) ==
    [order EXCEPT !.status = "confirmed",
                  !.total_amount = ParseFloat(order.total_amount),
                  !.tax_amount = ParseFloat(order.tax_amount)]

\* return { ...order, total_amount: parseFloat(...), tax_amount: parseFloat(...) }
ReturnedOrder(order) ==
    [order EXCEPT !.total_amount = ParseFloat(order.total_amount),
                  !.tax_amount = ParseFloat(order.tax_amount)]

\* insert into order_items: one row per element of orderItemsData
InsertOrderItems(c) ==
    LET cr == call[c]
        order == cr.orderResult[1]
        rows == { [id |-> seq.order_items + k,
                   order_id |-> order.id,
                   menu_item_id |-> cr.orderItemsData[k].menu_item_id,
                   quantity |-> cr.orderItemsData[k].quantity,
                   size |-> cr.orderItemsData[k].size,
                   milk_type |-> cr.orderItemsData[k].milk_type,
                   extra_shots |-> cr.orderItemsData[k].extra_shots,
                   unit_price |-> ToNumeric(cr.orderItemsData[k].unit_price),
                   total_price |-> ToNumeric(cr.orderItemsData[k].total_price),
                   special_instructions |-> cr.orderItemsData[k].special_instructions] :
                  k \in 1 .. Len(cr.orderItemsData) }
    IN  /\ cr.pc = "insert_items"
        /\ order_items' = order_items \cup rows
        /\ seq' = [seq EXCEPT !.order_items = seq.order_items + Len(cr.orderItemsData)]
        /\ call' = [call EXCEPT ![c] =
               [cr EXCEPT !.pc = "done", !.result = <<ReturnedOrder(order)>>]]
        /\ UNCHANGED <<clock, menu_items, size_pricing, orders, payments, op, menu_categories, cart, ui>>

\* a query or an insert is rejected by the store for a reason of its own
\* (connection lost, statement timeout); nothing of it is written
StorageFailure(c) ==
    /\ call[c].pc \in {"select_item", "select_size", "insert_order", "insert_items"}
    /\ call' = [call EXCEPT ![c] = Thrown(call[c], Err("StorageFailure", 0, "", 0))]
    /\ UNCHANGED <<clock, menu_items, size_pricing, orders, order_items, seq, payments, op, menu_categories, cart, ui>>

\* a millisecond passes
Tick ==
    /\ clock < MaxClock
    /\ clock' = clock + 1
    /\ UNCHANGED <<menu_items, size_pricing, orders, order_items, seq, call, payments, op, menu_categories, cart, ui>>

----------------------------------------------------------------------------
(* createSizePricing: the checks and the insert, taken as one step *)

CreateSizePricing(input) ==
    /\ \E m \in menu_items : m.id = input.menu_item_id
    /\ ~ \E sp \in size_pricing :
           sp.menu_item_id = input.menu_item_id /\ sp.size = input.size
    /\ size_pricing' = size_pricing \cup
           {[id |-> seq.size_pricing + 1, menu_item_id |-> input.menu_item_id,
             size |-> input.size, price_modifier |-> input.price_modifier]}
    /\ seq' = [seq EXCEPT !.size_pricing = seq.size_pricing + 1]
    /\ UNCHANGED <<clock, menu_items, orders, order_items, call, payments, op, menu_categories, cart, ui>>

----------------------------------------------------------------------------
(* updateOrderStatus, one action per database round trip *)

\* an optional field left out of an input
UNDEFINED == "undefined"

orderStatusEnum == {"pending", "confirmed", "preparing", "ready", "completed", "cancelled"}

\* updateOrderStatusInputSchema
UpdateOrderStatusInput(id, status, estimated_ready_time) ==
    [id |-> id, status |-> status, estimated_ready_time |-> estimated_ready_time]

\* an order id that no order has
MissingOrderId == 9

\* the date that staff enter as the estimated ready time
ReadyTime == "2024-01-01T12:30:00Z"

UpdateOrderStatusInputs ==
    { UpdateOrderStatusInput(id, status, t) :
        id \in {1, MissingOrderId}, status \in orderStatusEnum,
        t \in {UNDEFINED, NULL, ReadyTime} }

\* the invocation starts; a handler is invoked again once it has ended
BeginOp(i, first, inputs) ==
    /\ op[i].pc \in {"idle", "done", "failed"}
    /\ \E input \in inputs :
         op' = [op EXCEPT ![i] = [IdleOp EXCEPT !.pc = first, !.input = input]]
    /\ UNCHANGED <<clock, menu_items, size_pricing, orders, order_items, seq, call, payments, menu_categories, cart, ui>>

\* throw: the catch block logs and rethrows
OpThrown(o, error) == [o EXCEPT !.pc = "failed", !.error = error]

\* select from orders where id = input.id; not found throws
SelectOrderForStatus(i) ==
    LET o == op[i]
        existingOrder == { r \in orders : r.id = o.input.id }
    IN  /\ o.pc = "uos_select"
        /\ IF existingOrder = {}
           THEN op' = [op EXCEPT ![i] = OpThrown(o, Err("OrderNotFound", o.input.id, "", 0))]
           ELSE \E r \in existingOrder :
                  op' = [op EXCEPT ![i] = [o EXCEPT !.pc = "uos_update", !.existing = <<r>>]]
        /\ UNCHANGED <<clock, menu_items, size_pricing, orders, order_items, seq, call, payments, menu_categories, cart, ui>>

\* the update that writes estimated_ready_time whether or not the input has
\* one
SetStatusClearingTime(row, input, now) ==
    [row EXCEPT !.status = input.status,
                !.updated_at = now,
                !.estimated_ready_time =
                    IF input.estimated_ready_time # UNDEFINED
                    THEN input.estimated_ready_time ELSE NULL]

\* .set(updateData): status and updated_at, and estimated_ready_time when
\* the input has one
SetOrderStatus(row, input, now) ==
    [row EXCEPT !.status = input.status,
                !.updated_at = now,
                !.estimated_ready_time =
                    IF input.estimated_ready_time # UNDEFINED
                    THEN input.estimated_ready_time ELSE @]

\* update orders set ... where id = input.id returning; the first row is
\* returned with its amounts parsed
UpdateOrderStatus(i) ==
    LET o == op[i]
    IN  /\ o.pc = "uos_update"
        /\ \E r \in orders :
             /\ r.id = o.input.id
             /\ orders' = (orders \ {r}) \cup {SetOrderStatus(r, o.input, clock)}
             /\ op' = [op EXCEPT ![i] =
                    [o EXCEPT !.pc = "done",
                              !.result = <<ReturnedOrder(SetOrderStatus(r, o.input, clock))>>]]
        /\ UNCHANGED <<clock, menu_items, size_pricing, order_items, seq, call, payments, menu_categories, cart, ui>>

----------------------------------------------------------------------------
(* createPayment, one action per database round trip *)

paymentMethodEnum == {"credit_card", "debit_card", "mobile_wallet", "qr_code", "cash"}

paymentStatusEnum == {"pending", "processing", "completed", "failed", "refunded"}

\* createPaymentInputSchema; the amount is written in tenths of a cent
CreatePaymentInput(order_id, amount, payment_method, transaction_id) ==
    [order_id |-> order_id, amount |-> amount, payment_method |-> payment_method,
     transaction_id |-> transaction_id]

\* input.amount as a JavaScript number
Amount(mills) == FDecimal(1, mills, 1000)

\* -x
FNeg(x) == [x EXCEPT !.sign = -@]

\* Math.abs(x - y) > tolerance
DiffersByMoreThan(x, y, tolerance) ==
    Let(FAdd(x, FNeg(y)), LAMBDA d : ~ FMagGeq(tolerance, d))

\* if (Math.abs(input.amount - orderTotal) > 0.01) throw
AmountMismatch(amount, orderTotal) ==
    DiffersByMoreThan(amount, orderTotal, FDecimal(1, 1, 100))

\* select from orders where id = input.order_id, then the two checks
SelectOrderForPayment(i) ==
    LET o == op[i]
        found == { r \in orders : r.id = o.input.order_id }
    IN  /\ o.pc = "cp_select"
        /\ IF found = {}
           THEN op' = [op EXCEPT ![i] =
                    OpThrown(o, Err("OrderNotFound", o.input.order_id, "", 0))]
           ELSE \E order \in found :
                  IF AmountMismatch(Amount(o.input.amount), ParseFloat(order.total_amount))
                  THEN op' = [op EXCEPT ![i] =
                           OpThrown([o EXCEPT !.existing = <<order>>],
                                    Err("AmountMismatch", o.input.order_id, "", 0))]
                  ELSE op' = [op EXCEPT ![i] =
                           [o EXCEPT !.pc = "cp_insert", !.existing = <<order>>]]
        /\ UNCHANGED <<clock, menu_items, size_pricing, orders, order_items, seq, call, payments, menu_categories, cart, ui>>

\* every new payment still waiting for its gateway
PaymentStatusPending(payment_method) == "pending"

\* the simulated gateway: cash and QR code payments are completed at once,
\* the electronic ones start as processing
PaymentStatusFor(payment_method) ==
    IF payment_method = "cash" THEN "completed"
    ELSE IF payment_method = "qr_code" THEN "completed"
    ELSE "processing"

GatewayResponseFor(payment_method) ==
    IF payment_method = "cash" THEN "Cash payment received"
    ELSE IF payment_method = "qr_code" THEN "QR code payment processed successfully"
    ELSE IF payment_method = "credit_card" THEN "credit_card payment initiated"
    ELSE IF payment_method = "debit_card" THEN "debit_card payment initiated"
    ELSE "mobile_wallet payment initiated"

\* the row of the payments insert: the values of the handler, the serial id
\* and the column defaults
NewPayment(input, id, now) ==
    [id |-> id,
     order_id |-> input.order_id,
     amount |-> ToNumeric(Amount(input.amount)),
     payment_method |-> input.payment_method,
     payment_status |-> PaymentStatusFor(input.payment_method),
     transaction_id |-> input.transaction_id,
     payment_gateway_response |-> GatewayResponseFor(input.payment_method),
     created_at |-> now,
     updated_at |-> now]

\* return { ...payment, amount: parseFloat(payment.amount) }
ReturnedPayment(payment) == [payment EXCEPT !.amount = ParseFloat(payment.amount)]

\* insert into payments ... returning
InsertPayment(i) ==
    LET o == op[i]
    IN  /\ o.pc = "cp_insert"
        /\ \E row \in { NewPayment(o.input, seq.payments + 1, clock) } :
             /\ payments' = payments \cup {row}
             /\ op' = [op EXCEPT ![i] =
                    [o EXCEPT !.pc = "done", !.result = <<ReturnedPayment(row)>>]]
        /\ seq' = [seq EXCEPT !.payments = seq.payments + 1]
        /\ UNCHANGED <<clock, menu_items, size_pricing, orders, order_items, call, menu_categories, cart, ui>>

----------------------------------------------------------------------------
(* updatePaymentStatus, one action per database round trip *)

\* updatePaymentStatusInputSchema
UpdatePaymentStatusInput(id, payment_status, transaction_id, payment_gateway_response) ==
    [id |-> id, payment_status |-> payment_status, transaction_id |-> transaction_id,
     payment_gateway_response |-> payment_gateway_response]

\* select from payments where id = input.id; not found throws
SelectPayment(i) ==
    LET o == op[i]
        existingPayments == { r \in payments : r.id = o.input.id }
    IN  /\ o.pc = "ups_select"
        /\ IF existingPayments = {}
           THEN op' = [op EXCEPT ![i] = OpThrown(o, Err("PaymentNotFound", o.input.id, "", 0))]
           ELSE \E existingPayment \in existingPayments :
                  op' = [op EXCEPT ![i] =
                      [o EXCEPT !.pc = "ups_update", !.existing = <<existingPayment>>]]
        /\ UNCHANGED <<clock, menu_items, size_pricing, orders, order_items, seq, call, payments, menu_categories, cart, ui>>

\* the update that writes both optional fields whether or not the input has
\* them
SetPaymentStatusClearing(row, input, now) ==
    [row EXCEPT !.payment_status = input.payment_status,
                !.updated_at = now,
                !.transaction_id =
                    IF input.transaction_id # UNDEFINED THEN input.transaction_id ELSE NULL,
                !.payment_gateway_response =
                    IF input.payment_gateway_response # UNDEFINED
                    THEN input.payment_gateway_response ELSE NULL]

\* .set(updateData): payment_status and updated_at, and each optional field
\* that the input has
SetPaymentStatus(row, input, now) ==
    [row EXCEPT !.payment_status = input.payment_status,
                !.updated_at = now,
                !.transaction_id =
                    IF input.transaction_id # UNDEFINED THEN input.transaction_id ELSE @,
                !.payment_gateway_response =
                    IF input.payment_gateway_response # UNDEFINED
                    THEN input.payment_gateway_response ELSE @]

\* the order is confirmed whatever the new payment status is
ConfirmsAlways(payment_status) == TRUE

\* if (input.payment_status === 'completed')
Confirms(payment_status) == payment_status = "completed"

\* update payments set ... where id = input.id returning
UpdatePayment(i) ==
    LET o == op[i]
    IN  /\ o.pc = "ups_update"
        /\ \E r \in payments :
             /\ r.id = o.input.id
             /\ payments' = (payments \ {r}) \cup {SetPaymentStatus(r, o.input, clock)}
             /\ op' = [op EXCEPT ![i] =
                    [o EXCEPT !.pc = IF Confirms(o.input.payment_status)
                                     THEN "ups_confirm" ELSE "done",
                              !.result =
                                  <<ReturnedPayment(SetPaymentStatus(r, o.input, clock))>>]]
        /\ UNCHANGED <<clock, menu_items, size_pricing, orders, order_items, seq, call, menu_categories, cart, ui>>

\* update orders set status = 'confirmed', updated_at where id =
\* existingPayment.order_id
ConfirmOrder(i) ==
    LET o == op[i]
    IN  /\ o.pc = "ups_confirm"
        /\ orders' = { IF r.id = o.existing[1].order_id
                       THEN [r EXCEPT !.status = "confirmed", !.updated_at = clock]
                       ELSE r : r \in orders }
        /\ op' = [op EXCEPT ![i] = [o EXCEPT !.pc = "done"]]
        /\ UNCHANGED <<clock, menu_items, size_pricing, order_items, seq, call, payments, menu_categories, cart, ui>>

----------------------------------------------------------------------------
(* createSizePricing, one action per database round trip *)

\* select from menu_items where id = input.menu_item_id; not found throws
SelectMenuItemForPricing(i) ==
    LET o == op[i]
        menuItem == { m \in menu_items : m.id = o.input.menu_item_id }
    IN  /\ o.pc = "csp_select_item"
        /\ op' = [op EXCEPT ![i] =
               IF menuItem = {}
               THEN OpThrown(o, Err("MenuItemNotFound", o.input.menu_item_id, "", 0))
               ELSE [o EXCEPT !.pc = "csp_select_existing"]]
        /\ UNCHANGED <<clock, menu_items, size_pricing, orders, order_items, seq, call, payments, menu_categories, cart, ui>>

\* select from size_pricing where menu_item_id = ... and size = ...; a row
\* found throws
SelectExistingSizePricing(i) ==
    LET o == op[i]
        existingSizePricing ==
            { sp \in size_pricing :
                sp.menu_item_id = o.input.menu_item_id /\ sp.size = o.input.size }
    IN  /\ o.pc = "csp_select_existing"
        /\ op' = [op EXCEPT ![i] =
               IF existingSizePricing # {}
               THEN OpThrown(o, Err("SizePricingExists", o.input.menu_item_id, o.input.size, 0))
               ELSE [o EXCEPT !.pc = "csp_insert"]]
        /\ UNCHANGED <<clock, menu_items, size_pricing, orders, order_items, seq, call, payments, menu_categories, cart, ui>>

\* insert into size_pricing ... returning; the table has no unique
\* constraint on (menu_item_id, size)
InsertSizePricing(i) ==
    LET o == op[i]
    IN  /\ o.pc = "csp_insert"
        /\ \E row \in { [id |-> seq.size_pricing + 1,
                          menu_item_id |-> o.input.menu_item_id,
                          size |-> o.input.size,
                          price_modifier |-> o.input.price_modifier] } :
             /\ size_pricing' = size_pricing \cup {row}
             /\ op' = [op EXCEPT ![i] = [o EXCEPT !.pc = "done", !.result = <<row>>]]
        /\ seq' = [seq EXCEPT !.size_pricing = seq.size_pricing + 1]
        /\ UNCHANGED <<clock, menu_items, orders, order_items, call, payments, menu_categories, cart, ui>>

----------------------------------------------------------------------------
(* Specifications *)

\* concurrent invocations of createOrder, the clock and the catalog handler
Next ==
    \/ Tick
    \/ \E input \in ConcurrentSizePricingInputs : CreateSizePricing(input)
    \/ \E c \in Calls :
         \/ Begin(c, ConcurrentInputs)
         \/ SelectMenuItem(c)
         \/ SelectSizePricing(c)
         \/ InsertOrder(c)
         \/ InsertOrderItems(c)
         \/ StorageFailure(c)

Spec == Init /\ [][Next]_vars

\* the catalog is set up, then one invocation of createOrder prices any cart;
\* the store answers every query
PricingNext ==
    \/ /\ call[1].pc = "idle"
       /\ \E input \in SizePricingInputs : CreateSizePricing(input)
    \/ Begin(1, PricingInputs)
    \/ SelectMenuItem(1)
    \/ SelectSizePricing(1)
    \/ InsertOrder(1)
    \/ InsertOrderItems(1)

PricingSpec == Init /\ [][PricingNext]_vars

\* the cart of the order that the status and payment handlers act on
LifecycleInputs == { OrderInput("John Doe", <<Selection(2, 1, NULL, 2)>>) }

\* one order is placed while staff update order statuses, one call after
\* another, as time passes
StatusNext ==
    \/ Tick
    \/ Begin(1, LifecycleInputs)
    \/ SelectMenuItem(1)
    \/ InsertOrder(1)
    \/ InsertOrderItems(1)
    \/ BeginOp(1, "uos_select", UpdateOrderStatusInputs)
    \/ SelectOrderForStatus(1)
    \/ UpdateOrderStatus(1)

StatusSpec == Init /\ [][StatusNext]_vars

\* a payment id that no payment has
MissingPaymentId == 9

\* amounts around the total of the order, in tenths of a cent: the total,
\* half a cent, one cent and two cents off
AmountOffsets == {-20, -10, 0, 5, 10, 20}

\* the total of the one order of the payment specification, in cents
LifecycleTotal == 665

CreatePaymentInputs ==
    { CreatePaymentInput(id, 10 * LifecycleTotal + d, method, "TXN-001") :
        id \in {1, MissingOrderId}, d \in AmountOffsets, method \in paymentMethodEnum }

UpdatePaymentStatusInputs ==
    { UpdatePaymentStatusInput(id, status, t, g) :
        id \in {1, MissingPaymentId}, status \in paymentStatusEnum,
        t \in {UNDEFINED, NULL}, g \in {UNDEFINED, "Approved"} }

\* one order is placed, a payment is made for it and its status is updated,
\* one call after another
PaymentNext ==
    \/ Begin(1, LifecycleInputs)
    \/ SelectMenuItem(1)
    \/ InsertOrder(1)
    \/ InsertOrderItems(1)
    \/ /\ seq.payments < MaxPayments
       /\ BeginOp(1, "cp_select", CreatePaymentInputs)
    \/ SelectOrderForPayment(1)
    \/ InsertPayment(1)
    \/ BeginOp(1, "ups_select", UpdatePaymentStatusInputs)
    \/ SelectPayment(1)
    \/ UpdatePayment(1)
    \/ ConfirmOrder(1)

PaymentSpec == Init /\ [][PaymentNext]_vars

\* the inputs of the concurrent catalog calls: two sizes of one item, and an
\* item that does not exist
CatalogInputs ==
    { SizePricingInput(2, "large", 200), SizePricingInput(2, "small", 100),
      SizePricingInput(MissingId, "large", 200) }

\* concurrent invocations of createSizePricing, at most MaxSizePricing of
\* them getting to their insert
CatalogNext ==
    \E i \in Ops :
      \/ /\ seq.size_pricing < MaxSizePricing
         /\ BeginOp(i, "csp_select_item", CatalogInputs)
      \/ SelectMenuItemForPricing(i)
      \/ SelectExistingSizePricing(i)
      \/ InsertSizePricing(i)

CatalogSpec == Init /\ [][CatalogNext]_vars

----------------------------------------------------------------------------
(* createOrder behind its input schema *)

\* quantity and extra_shots as a caller may send them: negative, zero and
\* positive
RawQuantities == {-1, 0, 1}

RawShots == {-1, 0, 1}

\* lines for the seeded latte, with and without a size
RawSelections ==
    { Selection(2, q, s, x) : q \in RawQuantities, s \in InputSizes, x \in RawShots }

\* every cart of at most MaxLines lines, the empty one included
RawInputs ==
    { OrderInput(NULL, items) : items \in {<<>>} \cup SeqsUpTo(RawSelections, MaxLines) }

\* createOrderItemInputSchema: quantity z.number().int().positive(),
\* extra_shots z.number().int().nonnegative()
ItemParses(item) ==
    /\ item.menu_item_id \in Int
    /\ item.quantity \in Nat \ {0}
    /\ item.extra_shots \in Nat

\* createOrderInputSchema: items z.array(createOrderItemInputSchema).min(1)
InputParses(input) ==
    /\ Len(input.items) >= 1
    /\ \A k \in 1 .. Len(input.items) : ItemParses(input.items[k])

\* the procedure of the API given an input its schema refuses: the parse
\* throws and the handler is not called
RejectInput(c, inputs) ==
    /\ call[c].pc = "idle"
    /\ \E input \in inputs :
         /\ ~ InputParses(input)
         /\ call' = [call EXCEPT ![c] =
                Thrown([IdleCall EXCEPT !.input = input],
                       Err("ZodError", 0, "", 0))]
    /\ UNCHANGED <<clock, menu_items, size_pricing, orders, order_items, seq, payments, op, menu_categories, cart, ui>>

\* the procedure of the API given an input its schema accepts: the handler
\* is called with it
AcceptInput(c, inputs) == Begin(c, { input \in inputs : InputParses(input) })

\* one createOrder call through the API, on any cart
ApiNext ==
    \/ RejectInput(1, RawInputs)
    \/ AcceptInput(1, RawInputs)
    \/ SelectMenuItem(1)
    \/ SelectSizePricing(1)
    \/ InsertOrder(1)
    \/ InsertOrderItems(1)
    \/ StorageFailure(1)

ApiSpec == Init /\ [][ApiNext]_vars

----------------------------------------------------------------------------
(* updateMenuItem, one action per database round trip *)

\* updateMenuItemInputSchema: the id and the optional fields that the
\* caller sends; a field left out is not in the domain of the input
UpdateMenuItemInput(id, fields) == [id |-> id] @@ fields

\* input.f !== undefined
Provided(input, f) == f \in DOMAIN input

\* the columns that updateMenuItem copies from its input as they are
CopiedFields ==
    {"name", "description", "is_available", "has_size_options", "has_milk_options",
     "max_extra_shots", "sort_order", "image_url"}

\* the fields sent by the admin form: one field, a null for a nullable
\* field, a price with half a cent, several fields, and none
UpdateMenuItemFields ==
    { [name |-> "Renamed"],
      [description |-> NULL],
      [description |-> "Freshly brewed"],
      [image_url |-> NULL],
      [base_price |-> 5255, is_available |-> FALSE],
      [has_size_options |-> TRUE, has_milk_options |-> TRUE,
       max_extra_shots |-> 3, sort_order |-> 2],
      [is_available |-> TRUE] }

UpdateMenuItemInputs ==
    { UpdateMenuItemInput(id, fields) :
        id \in {1, MissingId}, fields \in UpdateMenuItemFields } \cup { [id |-> 1] }

\* select from menu_items where id = input.id; not found throws
SelectMenuItemForUpdate(i) ==
    LET o == op[i]
        existingItems == { r \in menu_items : r.id = o.input.id }
    IN  /\ o.pc = "umi_select"
        /\ IF existingItems = {}
           THEN op' = [op EXCEPT ![i] =
                    OpThrown(o, Err("MenuItemNotFound", o.input.id, "", 0))]
           ELSE \E r \in existingItems :
                  op' = [op EXCEPT ![i] = [o EXCEPT !.pc = "umi_update", !.existing = <<r>>]]
        /\ UNCHANGED <<clock, menu_items, size_pricing, orders, order_items, seq, call, payments, menu_categories, cart, ui>>

\* the update that writes a null description when the input has none
SetMenuItemClearing(row, input, now) ==
    [f \in DOMAIN row |->
        IF f = "updated_at" THEN now
        ELSE IF f = "base_price" /\ Provided(input, f) THEN ToNumeric(Amount(input[f]))
        ELSE IF f = "description" /\ ~ Provided(input, f) THEN NULL
        ELSE IF f \in CopiedFields /\ Provided(input, f) THEN input[f]
        ELSE row[f]]

\* .set(updateData): updated_at now(), every provided field as it is sent,
\* base_price through toString() into its numeric(10,2) column
SetMenuItem(row, input, now) ==
    [f \in DOMAIN row |->
        IF f = "updated_at" THEN now
        ELSE IF f = "base_price" /\ Provided(input, f) THEN ToNumeric(Amount(input[f]))
        ELSE IF f \in CopiedFields /\ Provided(input, f) THEN input[f]
        ELSE row[f]]

\* return { ...updatedItem, base_price: parseFloat(updatedItem.base_price) }
ReturnedMenuItem(row) == [row EXCEPT !.base_price = ParseFloat(row.base_price)]

\* update menu_items set ... where id = input.id returning
UpdateMenuItem(i) ==
    LET o == op[i]
    IN  /\ o.pc = "umi_update"
        /\ \E r \in menu_items :
             /\ r.id = o.input.id
             /\ \E updatedItem \in {SetMenuItem(r, o.input, clock)} :
                  /\ menu_items' = (menu_items \ {r}) \cup {updatedItem}
                  /\ op' = [op EXCEPT ![i] =
                         [o EXCEPT !.pc = "done",
                                   !.result = <<ReturnedMenuItem(updatedItem)>>]]
        /\ UNCHANGED <<clock, size_pricing, orders, order_items, seq, call, payments, menu_categories, cart, ui>>

\* the admin updates menu items, one call after another, as time passes
MenuNext ==
    \/ Tick
    \/ BeginOp(1, "umi_select", UpdateMenuItemInputs)
    \/ SelectMenuItemForUpdate(1)
    \/ UpdateMenuItem(1)

MenuSpec == Init /\ [][MenuNext]_vars

----------------------------------------------------------------------------
(* createMenuCategory, one action per database round trip *)

\* createMenuCategoryInputSchema
CreateMenuCategoryInput(name, description, sort_order, is_active) ==
    [name |-> name, description |-> description, sort_order |-> sort_order,
     is_active |-> is_active]

CreateMenuCategoryInputs ==
    { CreateMenuCategoryInput(name, NULL, sort_order, is_active) :
        name \in {"Coffee", "Tea"}, sort_order \in {1, 2}, is_active \in BOOLEAN }

\* a category of the same name, whatever its sort order
SameName(row, input) == row.name = input.name

\* and(eq(name, input.name), eq(sort_order, input.sort_order))
SameNameAndSortOrder(row, input) ==
    row.name = input.name /\ row.sort_order = input.sort_order

\* select from menu_categories where name and sort_order are the input's;
\* a row found throws
SelectExistingCategory(i) ==
    LET o == op[i]
        existingCategory == { r \in menu_categories : SameNameAndSortOrder(r, o.input) }
    IN  /\ o.pc = "cmc_select"
        /\ IF existingCategory # {}
           THEN op' = [op EXCEPT ![i] = OpThrown(o, Err("CategoryExists", 0, o.input.name,
                                                          o.input.sort_order))]
           ELSE op' = [op EXCEPT ![i] = [o EXCEPT !.pc = "cmc_insert"]]
        /\ UNCHANGED <<clock, menu_items, size_pricing, orders, order_items, seq, call, payments, menu_categories, cart, ui>>

\* insert into menu_categories ... returning
InsertMenuCategory(i) ==
    LET o == op[i]
        row == MenuCategoryRow(seq.menu_categories + 1, o.input.name, o.input.description,
                               o.input.sort_order, o.input.is_active, clock)
    IN  /\ o.pc = "cmc_insert"
        /\ menu_categories' = menu_categories \cup {row}
        /\ seq' = [seq EXCEPT !.menu_categories = seq.menu_categories + 1]
        /\ op' = [op EXCEPT ![i] = [o EXCEPT !.pc = "done", !.result = <<row>>]]
        /\ UNCHANGED <<clock, menu_items, size_pricing, orders, order_items, call, payments, cart, ui>>

\* the admin creates categories, one call after another
CategoryNext ==
    \/ BeginOp(1, "cmc_select", CreateMenuCategoryInputs)
    \/ SelectExistingCategory(1)
    \/ InsertMenuCategory(1)

CategorySpec == Init /\ [][CategoryNext]_vars

----------------------------------------------------------------------------
(* createOrder while the admin updates menu items *)

\* carts of the customer: one line with an extra shot, and two lines, the
\* first with a size and the most extra shots its item allows
RaceOrderInputs ==
    { OrderInput(NULL, <<Selection(1, 1, NULL, 1)>>),
      OrderInput(NULL, <<Selection(2, 1, "large", 2), Selection(1, 2, NULL, 0)>>) }

\* updates of the admin to the item of both carts: taken off the menu or
\* put back, repriced, or no longer sold with extra shots
RaceUpdateInputs ==
    { UpdateMenuItemInput(id, fields) :
        id \in {1},
        fields \in { [is_available |-> FALSE], [is_available |-> TRUE],
                     [base_price |-> 5255], [max_extra_shots |-> 0] } }

RaceNext ==
    \/ Begin(1, RaceOrderInputs)
    \/ SelectMenuItem(1)
    \/ SelectSizePricing(1)
    \/ InsertOrder(1)
    \/ InsertOrderItems(1)
    \/ BeginOp(1, "umi_select", RaceUpdateInputs)
    \/ SelectMenuItemForUpdate(1)
    \/ UpdateMenuItem(1)

RaceSpec == Init /\ [][RaceNext]_vars

----------------------------------------------------------------------------
(* An order, its status and its payments *)

\* staff move the order on, or cancel it
LedgerStatusInputs ==
    { UpdateOrderStatusInput(1, status, UNDEFINED) :
        status \in {"preparing", "ready", "completed", "cancelled"} }

\* payments of the exact total, at the counter or by card
LedgerPaymentInputs ==
    { CreatePaymentInput(1, 10 * LifecycleTotal, method, "TXN-001") :
        method \in {"cash", "credit_card"} }

\* the gateway reports on a payment
LedgerPaymentStatusInputs ==
    { UpdatePaymentStatusInput(id, status, UNDEFINED, UNDEFINED) :
        id \in 1 .. MaxOrderPayments, status \in {"completed", "failed"} }

\* one order is placed; payments are made for it, at most MaxOrderPayments
\* of them, their statuses and the status of the order are updated, one
\* call after another
LedgerNext ==
    \/ Begin(1, LifecycleInputs)
    \/ SelectMenuItem(1)
    \/ InsertOrder(1)
    \/ InsertOrderItems(1)
    \/ BeginOp(1, "uos_select", LedgerStatusInputs)
    \/ SelectOrderForStatus(1)
    \/ UpdateOrderStatus(1)
    \/ /\ seq.payments < MaxOrderPayments
       /\ BeginOp(1, "cp_select", LedgerPaymentInputs)
    \/ SelectOrderForPayment(1)
    \/ InsertPayment(1)
    \/ BeginOp(1, "ups_select", LedgerPaymentStatusInputs)
    \/ SelectPayment(1)
    \/ UpdatePayment(1)
    \/ ConfirmOrder(1)

LedgerSpec == Init /\ [][LedgerNext]_vars

----------------------------------------------------------------------------
(* createOrder with every payment method *)

\* the input with another payment method
WithPaymentMethod(input, payment_method) ==
    [input EXCEPT !.payment_method = payment_method]

\* carts that are accepted and carts that are refused (an unavailable item,
\* too many extra shots), each with every payment method
CheckoutInputs ==
    { WithPaymentMethod(OrderInput("John Doe", items), method) :
        items \in { <<Selection(1, 1, NULL, 0)>>,
                    <<Selection(2, 2, "large", 1), Selection(1, 1, NULL, 1)>>,
                    <<Selection(1, 1, NULL, 0), Selection(3, 1, NULL, 0)>>,
                    <<Selection(1, 1, NULL, 2)>> },
        method \in paymentMethodEnum }

\* one createOrder call; the store may reject any of its statements
CheckoutNext ==
    \/ Begin(1, CheckoutInputs)
    \/ SelectMenuItem(1)
    \/ SelectSizePricing(1)
    \/ InsertOrder(1)
    \/ InsertOrderItems(1)
    \/ StorageFailure(1)

CheckoutSpec == Init /\ [][CheckoutNext]_vars

----------------------------------------------------------------------------
(* The client: MenuItemCustomizer, CustomerMenu, App and Cart *)

\* const premiumMilks
premiumMilks == {"oat", "almond", "soy", "coconut"}

\* Math.max(x, 0)
MaxZero(x) == IF x.sign < 0 THEN FZero ELSE x

\* MenuItemCustomizer.calculatePrice: the base price, the modifier of the
\* selected size if size pricing is loaded and has it, 0.60 for a premium
\* milk, 0.75 per extra shot, and not below 0
calculatePrice(item, sizePricing, selectedSize, selectedMilk, extraShots) ==
    Let(ParseFloat(item.base_price), LAMBDA base :
    Let(IF /\ selectedSize # NULL
           /\ sizePricing # {}
           /\ \E p \in sizePricing : p.size = selectedSize
        THEN FAdd(base, ParseFloat((CHOOSE p \in sizePricing :
                                        p.size = selectedSize).price_modifier))
        ELSE base, LAMBDA sized :
    Let(IF selectedMilk \in premiumMilks
        THEN FAdd(sized, FDecimal(1, 60, 100))
        ELSE sized, LAMBDA milked :
        MaxZero(FAdd(milked, FMul(Num(extraShots), FDecimal(1, 75, 100)))))))

\* interface CartItem
CartItem(item, quantity, size, milkType, extraShots, unitPrice) ==
    [menuItemId |-> item.id, menuItemName |-> item.name,
     basePrice |-> ParseFloat(item.base_price), quantity |-> quantity,
     size |-> size, milkType |-> milkType, extraShots |-> extraShots,
     specialInstructions |-> NULL, unitPrice |-> unitPrice,
     totalPrice |-> FMul(unitPrice, Num(quantity))]

\* the find of addToCart: the same item with the same customizations
SameSelection(cartItem, item) ==
    /\ cartItem.menuItemId = item.menuItemId
    /\ cartItem.size = item.size
    /\ cartItem.milkType = item.milkType
    /\ cartItem.extraShots = item.extraShots
    /\ cartItem.specialInstructions = item.specialInstructions

\* an addToCart that always appends
AppendToCart(prevCart, item) == Append(prevCart, item)

\* App.addToCart: the first line of the same selection gets the quantity
\* added and its total recomputed, or else the item is appended
addToCart(prevCart, item) ==
    IF \E i \in 1 .. Len(prevCart) : SameSelection(prevCart[i], item)
    THEN LET existing == CHOOSE i \in 1 .. Len(prevCart) :
                             /\ SameSelection(prevCart[i], item)
                             /\ \A j \in 1 .. i - 1 : ~ SameSelection(prevCart[j], item)
         IN  [prevCart EXCEPT ![existing] =
                 [@ EXCEPT !.quantity = @ + item.quantity,
                           !.totalPrice =
                               FMul(Num(prevCart[existing].quantity + item.quantity),
                                    prevCart[existing].unitPrice)]]
    ELSE Append(prevCart, item)

\* App.updateCartItem with the updates of handleQuantityChange
updateCartItem(prevCart, index, quantity) ==
    [prevCart EXCEPT ![index] =
        [@ EXCEPT !.quantity = quantity,
                  !.totalPrice = IF quantity # 0
                                 THEN FMul(Num(quantity), prevCart[index].unitPrice)
                                 ELSE prevCart[index].totalPrice]]

\* App.removeFromCart: prevCart.filter((_, i) => i !== index)
removeFromCart(prevCart, index) ==
    [i \in 1 .. Len(prevCart) - 1 |-> IF i < index THEN prevCart[i] ELSE prevCart[i + 1]]

\* cart.reduce((total, item) => total + item.totalPrice, 0)
RECURSIVE SumOfLines(_)
SumOfLines(lines) ==
    IF lines = <<>> THEN FZero
    ELSE FAdd(SumOfLines(SubSeq(lines, 1, Len(lines) - 1)), lines[Len(lines)].totalPrice)

\* Cart: subtotal + subtotal * taxRate, taxRate being 0.08
CartTotal(lines) ==
    Let(SumOfLines(lines), LAMBDA subtotal :
        FAdd(subtotal, FMul(subtotal, FDecimal(1, 8, 100))))

\* floor(|x| * 200)
FloorHalfCents(x) ==
    Let(x, LAMBDA a :
    Let(BigMul(a.man, BigOf(200)), LAMBDA n :
        IntOf(IF a.exp >= 0 THEN BigShl(n, a.exp) ELSE BigShr(n, -a.exp))))

\* x.toFixed(2), in cents: the exact value of x rounded to the nearest
\* cent, halves away from zero
ToFixed2(x) == x.sign * ((FloorHalfCents(x) + 1) \div 2)

\* the items of the createOrder input: cart.map(item => ...)
OrderItemsOf(lines) ==
    [i \in 1 .. Len(lines) |->
        [menu_item_id |-> lines[i].menuItemId,
         quantity |-> lines[i].quantity,
         size |-> lines[i].size,
         milk_type |-> lines[i].milkType,
         extra_shots |-> lines[i].extraShots,
         special_instructions |-> lines[i].specialInstructions]]

\* the input that handleCheckout sends
CheckoutInput(u) ==
    WithPaymentMethod(OrderInput(u.customerName, OrderItemsOf(u.submitted)),
                      u.paymentMethod)

\* the menu that CustomerMenu has loaded: the available items, the latte
\* sold with milk options and without extra shots
ClientCatalog ==
    { IF m.id = 2 THEN [m EXCEPT !.has_milk_options = TRUE, !.max_extra_shots = 0] ELSE m :
        m \in { a \in SeedCatalog : a.is_available } }

\* the size pricing of the store: the latte in large
ClientSizePricing ==
    {[id |-> 1, menu_item_id |-> 2, size |-> "large", price_modifier |-> 50]}

\* the size pricing that the customizer has loaded when the customer
\* confirms: none yet, or the rows of the item
LoadedSizePricing(item) ==
    {{}} \cup (IF item.has_size_options
               THEN {{ sp \in ClientSizePricing : sp.menu_item_id = item.id }}
               ELSE {})

\* the milk types that the customer picks from
MilkChoices(item) == IF item.has_milk_options THEN {"whole", "oat"} ELSE {"none"}

\* MenuItemCustomizer.handleConfirm: the customized item of quantity 1, for
\* every choice that the dialog offers
CustomizedItems(item) ==
    UNION { { CartItem(item, 1, selectedSize, selectedMilk, extraShots,
                       calculatePrice(item, sizePricing, selectedSize, selectedMilk,
                                      extraShots)) :
                selectedSize \in (IF sizePricing = {} THEN {NULL}
                                  ELSE { sp.size : sp \in sizePricing }),
                selectedMilk \in MilkChoices(item),
                extraShots \in {0, item.max_extra_shots} } :
            sizePricing \in LoadedSizePricing(item) }

\* CustomerMenu.handleItemClick: an item without options is added as it is;
\* one with options goes through the customizer
ClickedItems ==
    UNION { IF item.has_size_options \/ item.has_milk_options \/ item.max_extra_shots > 0
            THEN CustomizedItems(item)
            ELSE { [CartItem(item, 1, NULL, NULL, 0, ParseFloat(item.base_price))
                       EXCEPT !.totalPrice = ParseFloat(item.base_price)] } :
            item \in ClientCatalog }

\* a click on a menu item ends in onAddToCart
HandleItemClick ==
    /\ ~ ui.isSubmitting
    /\ seq.orders < MaxClientOrders
    /\ \E cartItem \in ClickedItems :
         \E added \in { addToCart(cart, cartItem) } :
           /\ Len(added) <= MaxCartLines
           /\ \A i \in 1 .. Len(added) : added[i].quantity <= MaxQuantity
           /\ cart' = added
    /\ UNCHANGED <<clock, menu_items, size_pricing, orders, order_items, seq, call, payments, op, menu_categories, ui>>

\* Cart.handleQuantityChange from the minus and plus buttons of a line
HandleQuantityChange ==
    /\ ~ ui.isSubmitting
    /\ \E index \in 1 .. Len(cart) : \E newQuantity \in {cart[index].quantity - 1,
                                                         cart[index].quantity + 1} :
         /\ newQuantity <= MaxQuantity
         /\ newQuantity > cart[index].quantity => seq.orders < MaxClientOrders
         /\ cart' = IF newQuantity <= 0
                    THEN removeFromCart(cart, index)
                    ELSE updateCartItem(cart, index, newQuantity)
    /\ UNCHANGED <<clock, menu_items, size_pricing, orders, order_items, seq, call, payments, op, menu_categories, ui>>

\* the bin button of a line, which works while an order is being placed
RemoveFromCart ==
    /\ \E index \in 1 .. Len(cart) : cart' = removeFromCart(cart, index)
    /\ UNCHANGED <<clock, menu_items, size_pricing, orders, order_items, seq, call, payments, op, menu_categories, ui>>

\* the Clear Cart button, shown while the cart has lines
ClearCart ==
    /\ cart # <<>>
    /\ cart' = <<>>
    /\ UNCHANGED <<clock, menu_items, size_pricing, orders, order_items, seq, call, payments, op, menu_categories, ui>>

\* the customer fills in the name and picks a payment method
FillForm ==
    /\ cart # <<>>
    /\ ~ ui.isSubmitting
    /\ \/ \E name \in {"", "John Doe"} : ui' = [ui EXCEPT !.customerName = name]
       \/ \E method \in {"cash"} : ui' = [ui EXCEPT !.paymentMethod = method]
    /\ UNCHANGED <<clock, menu_items, size_pricing, orders, order_items, seq, call, payments, op, menu_categories, cart>>

\* the button without its isSubmitting check
PlaceOrderEnabledWhileSubmitting ==
    /\ cart # <<>>
    /\ ~ (ui.customerName = "" \/ ui.paymentMethod = "")

\* the Place Order button is shown while the cart has lines and is disabled
\* while isSubmitting, without a name or without a payment method
PlaceOrderEnabled ==
    /\ cart # <<>>
    /\ ~ (ui.isSubmitting \/ ui.customerName = "" \/ ui.paymentMethod = "")

\* handleCheckout up to its await: setIsSubmitting(true) and the request;
\* the customer gives up once the store has taken MaxClientOrders orders
PlaceOrder ==
    /\ PlaceOrderEnabled
    /\ seq.orders < MaxClientOrders
    /\ ui' = [ui EXCEPT !.isSubmitting = TRUE, !.pc = "awaiting", !.submitted = cart]
    /\ UNCHANGED <<clock, menu_items, size_pricing, orders, order_items, seq, call, payments, op, menu_categories, cart>>

\* the server takes the request of the client
ReceiveCheckout ==
    /\ ui.pc = "awaiting"
    /\ AcceptInput(1, {CheckoutInput(ui)})

\* handleCheckout after a fulfilled await: the form and the cart are
\* cleared, the order is handed to App, and finally isSubmitting is false
CheckoutSucceeded ==
    /\ ui.pc = "awaiting"
    /\ call[1].pc = "done"
    /\ ui' = [InitialUi EXCEPT !.currentOrder = <<call[1].result[1]>>]
    /\ cart' = <<>>
    /\ call' = [call EXCEPT ![1] = IdleCall]
    /\ UNCHANGED <<clock, menu_items, size_pricing, orders, order_items, seq, payments, op, menu_categories>>

\* handleCheckout after a rejected await: the catch block alerts, and
\* finally isSubmitting is false
CheckoutFailed ==
    /\ ui.pc = "awaiting"
    /\ call[1].pc = "failed"
    /\ ui' = [ui EXCEPT !.isSubmitting = FALSE, !.pc = "idle", !.submitted = <<>>]
    /\ call' = [call EXCEPT ![1] = IdleCall]
    /\ UNCHANGED <<clock, menu_items, size_pricing, orders, order_items, seq, payments, op, menu_categories, cart>>

\* the store holds what the client has loaded, and the unavailable item
ClientInit ==
    /\ clock = 0
    /\ menu_items = ClientCatalog \cup { m \in SeedCatalog : ~ m.is_available }
    /\ size_pricing = ClientSizePricing
    /\ orders = {}
    /\ order_items = {}
    /\ seq = [size_pricing |-> 1, orders |-> 0, order_items |-> 0, payments |-> 0,
              menu_categories |-> 1]
    /\ call = [c \in Calls |-> IdleCall]
    /\ payments = {}
    /\ op = [i \in Ops |-> IdleOp]
    /\ menu_categories = SeedCategories
    /\ cart = <<>>
    /\ ui = InitialUi

\* the steps of the server on the request of the client
ServerNext ==
    \/ ReceiveCheckout
    \/ SelectMenuItem(1)
    \/ SelectSizePricing(1)
    \/ InsertOrder(1)
    \/ InsertOrderItems(1)

\* a customer fills a cart and places an order; the store may reject any
\* statement of the server
ClientNext ==
    \/ HandleItemClick
    \/ HandleQuantityChange
    \/ RemoveFromCart
    \/ ClearCart
    \/ FillForm
    \/ PlaceOrder
    \/ ServerNext
    \/ StorageFailure(1)
    \/ CheckoutSucceeded
    \/ CheckoutFailed

ClientSpec == ClientInit /\ [][ClientNext]_vars

\* the request is answered in the end, and the answer handled
ClientLiveSpec ==
    ClientSpec /\ WF_vars(ServerNext) /\ WF_vars(CheckoutSucceeded) /\ WF_vars(CheckoutFailed)

----------------------------------------------------------------------------
(* Vocabulary of the properties *)

ValidationKinds == {"NotFound", "Unavailable", "LimitExceeded"}

PersistenceKinds == {"UniqueViolation", "StorageFailure"}

Max(a, b) == IF a > b THEN a ELSE b

\* n / d rounded to the nearest integer, halves away from zero
RoundDiv(n, d) == Sign(n) * ((2 * Abs(n) + d) \div (2 * d))

\* the order_items rows of an order
ItemsOf(order_id) == { r \in order_items : r.order_id = order_id }

\* the k-th order_items row of an order, in the order of the ids
ItemRow(order_id, k) ==
    CHOOSE r \in ItemsOf(order_id) :
        Cardinality({ q \in ItemsOf(order_id) : q.id < r.id }) = k - 1

RECURSIVE SumTotalPrice(_)
SumTotalPrice(rows) ==
    IF rows = {} THEN 0
    ELSE LET r == CHOOSE x \in rows : TRUE
         IN  r.total_price + SumTotalPrice(rows \ {r})

\* the menu item a cart line refers to (the line's item exists)
ItemOfLine(item) == CHOOSE m \in menu_items : m.id = item.menu_item_id

\* the size pricing rows that apply to a cart line
ModifiersOfLine(item) ==
    { sp \in size_pricing :
        /\ item.size # NULL
        /\ sp.menu_item_id = item.menu_item_id
        /\ sp.size = item.size
        /\ \E m \in menu_items : m.id = item.menu_item_id /\ m.has_size_options }

\* what the contract says a single line is rejected with, if at all:
\* existence, then availability, then the extra shots limit
LineError(item) ==
    IF ~ \E m \in menu_items : m.id = item.menu_item_id
    THEN Err("NotFound", item.menu_item_id, "", 0)
    ELSE IF ~ ItemOfLine(item).is_available
    THEN Err("Unavailable", 0, ItemOfLine(item).name, 0)
    ELSE IF item.extra_shots > 0 /\ item.extra_shots > ItemOfLine(item).max_extra_shots
    THEN Err("LimitExceeded", 0, ItemOfLine(item).name, ItemOfLine(item).max_extra_shots)
    ELSE NoError

\* the first line of a cart that fails a check, 0 if none does
FirstFailing(items) ==
    IF \E k \in 1 .. Len(items) : LineError(items[k]) # NoError
    THEN CHOOSE k \in 1 .. Len(items) :
             /\ LineError(items[k]) # NoError
             /\ \A j \in 1 .. k - 1 : LineError(items[j]) = NoError
    ELSE 0

ValidCart(input) == FirstFailing(input.items) = 0

\* the invocation has written its order row
Inserted(c) == call[c].orderResult # <<>>

----------------------------------------------------------------------------
(* C1.  createOrder's writes are atomic: in every reachable state the      *)
(* order row of an invocation exists if and only if all of its order item  *)
(* rows exist, exactly one per cart line, also after a storage failure and *)
(* between the steps of the operation.                                     *)

C1_AtomicWrites ==
    /\ \A c \in Calls :
         Inserted(c) =>
           Cardinality(ItemsOf(call[c].orderResult[1].id)) = Len(call[c].input.items)
    /\ \A r \in order_items : \E o \in orders : o.id = r.order_id

----------------------------------------------------------------------------
(* C2.  When a line of the cart fails validation (menu item missing,       *)
(* unavailable, too many extra shots), whatever its position, the          *)
(* invocation never gets to its inserts and ends rejected, the rejecting   *)
(* step leaves orders and order_items as they are, and no row of either    *)
(* table is a row of that invocation: the tables hold the rows of the      *)
(* invocations that passed validation and nothing else.                    *)

RejectedByValidation(c) ==
    call[c].pc = "failed" /\ call[c].error.kind \in ValidationKinds

\* the rows of orders are the rows the invocations got back from their insert
OrdersAreInserted ==
    /\ orders = { call[d].orderResult[1] : d \in { e \in Calls : Inserted(e) } }
    /\ \A r \in order_items :
         \E d \in Calls : Inserted(d) /\ call[d].orderResult[1].id = r.order_id

C2_NothingWrittenBefore ==
    /\ OrdersAreInserted
    /\ \A c \in Calls :
         (call[c].pc # "idle" /\ ~ ValidCart(call[c].input))
           => /\ ~ Inserted(c)
              /\ call[c].pc \in {"select_item", "select_size", "failed"}
    /\ \A c \in Calls : RejectedByValidation(c) => ~ Inserted(c)

C2_RejectingStepWritesNothing ==
    \A c \in Calls :
      (call[c].pc # "failed" /\ call'[c].pc = "failed"
         /\ call'[c].error.kind \in ValidationKinds)
        => (orders' = orders /\ order_items' = order_items)

C2_ValidationFailureWritesNothing ==
    [] C2_NothingWrittenBefore /\ [][C2_RejectingStepWritesNothing]_vars

C2_Witness ==
    \E c \in Calls :
      /\ RejectedByValidation(c)
      /\ call[c].idx = 2
      /\ orders # {}

----------------------------------------------------------------------------
(* C3.  Lines are validated in list order and, within a line, existence    *)
(* is checked first (NotFound with the menu item id), availability second  *)
(* (Unavailable with the name), the extra shots limit third (LimitExceeded *)
(* with the name and the maximum).  A rejection by validation reports the  *)
(* first failing check of the first failing line, the loop is then at that *)
(* line, and no invocation ever looks at a line after it.                  *)

C3_FirstFailureReported ==
    \A c \in Calls :
      LET cr == call[c]
          k == FirstFailing(cr.input.items)
      IN  /\ RejectedByValidation(c) =>
                (k > 0 /\ cr.idx = k /\ cr.error = LineError(cr.input.items[k]))
          /\ (cr.pc \in {"select_item", "select_size"} /\ k > 0) => cr.idx <= k
          /\ cr.pc \in {"insert_order", "insert_items", "done"} => k = 0

\* rejected at the second line, by the second check, on a line that would
\* fail the third check as well
C3_Witness ==
    \E c \in Calls :
      /\ RejectedByValidation(c)
      /\ call[c].idx = 2
      /\ call[c].error.kind = "Unavailable"
      /\ CurrentItem(call[c]).extra_shots > call[c].menuItems[1].max_extra_shots

----------------------------------------------------------------------------
(* C4.  For every order line whose item has size options and a size        *)
(* pricing row with modifier m for the requested size, the persisted       *)
(* unit_price is max(base_price + m + extra_shots * 0.75, 0).              *)

C4_ClampedUnitPrice ==
    \A c \in Calls :
      call[c].pc = "done" =>
        \A k \in 1 .. Len(call[c].input.items) :
          LET item == call[c].input.items[k]
              row == ItemRow(call[c].orderResult[1].id, k)
          IN  ModifiersOfLine(item) # {} =>
                \E sp \in ModifiersOfLine(item) :
                  row.unit_price =
                    Max(ItemOfLine(item).base_price + sp.price_modifier
                          + item.extra_shots * 75, 0)

----------------------------------------------------------------------------
(* C5.  Every persisted order item has unit_price >= 0 and                 *)
(* total_price >= 0, and every order has total_amount >= 0, whatever the   *)
(* size modifiers of the catalog.                                          *)

C5_NoNegativePrice ==
    /\ \A r \in order_items : r.unit_price >= 0 /\ r.total_price >= 0
    /\ \A o \in orders : o.total_amount >= 0

----------------------------------------------------------------------------
(* C6.  For every successful createOrder, in whole cents: each line's      *)
(* total_price is unit_price * quantity, the subtotal is the sum of the    *)
(* line totals, the persisted tax_amount is a tenth of the subtotal        *)
(* rounded to the cent, the persisted total_amount is the subtotal plus    *)
(* the persisted tax_amount, and a single line without size and extra      *)
(* shots gives total_amount = round(base_price * quantity * 1.10).         *)

C6_Totals ==
    \A c \in Calls :
      call[c].pc = "done" =>
        LET order == call[c].orderResult[1]
            rows == ItemsOf(order.id)
            items == call[c].input.items
            subtotal == SumTotalPrice(rows)
        IN  /\ order \in orders
            /\ Cardinality(rows) = Len(items)
            /\ \A r \in rows : r.total_price = r.unit_price * r.quantity
            /\ order.tax_amount = RoundDiv(subtotal, 10)
            /\ order.total_amount = subtotal + order.tax_amount
            /\ (Len(items) = 1 /\ items[1].size = NULL /\ items[1].extra_shots = 0)
                 => order.total_amount =
                      RoundDiv(ItemOfLine(items[1]).base_price * items[1].quantity * 11, 10)

----------------------------------------------------------------------------
(* C7.  A requested size changes the unit price only when the menu item    *)
(* has size options and a size pricing row exists for that menu item and   *)
(* that size; otherwise the unit price is the base price plus the extra    *)
(* shots, and the order still succeeds; the requested size is recorded     *)
(* unchanged on the order item in every case.                              *)

C7_SizeModifierOnlyWhenConfigured ==
    \A c \in Calls :
      /\ call[c].pc = "done" =>
           \A k \in 1 .. Len(call[c].input.items) :
             LET item == call[c].input.items[k]
                 row == ItemRow(call[c].orderResult[1].id, k)
             IN  /\ row.size = item.size
                 /\ row.menu_item_id = item.menu_item_id
                 /\ ModifiersOfLine(item) = {} =>
                      row.unit_price =
                        ItemOfLine(item).base_price + item.extra_shots * 75
      /\ (call[c].pc = "failed" /\ ValidCart(call[c].input))
           => call[c].error.kind \in PersistenceKinds

\* a size was requested of an item that has size options and size pricing,
\* but none for that size, and the order is placed
C7_Witness ==
    \E c \in Calls :
      /\ call[c].pc = "done"
      /\ \E k \in 1 .. Len(call[c].input.items) :
           LET item == call[c].input.items[k]
           IN  /\ item.size # NULL
               /\ ItemOfLine(item).has_size_options
               /\ ModifiersOfLine(item) = {}
               /\ \E sp \in size_pricing : sp.menu_item_id = item.menu_item_id

----------------------------------------------------------------------------
(* C8.  After any sequence or interleaving of createOrder invocations, no  *)
(* two persisted orders share an order_number.                             *)

C8_UniqueOrderNumbers ==
    \A o1, o2 \in orders : o1.order_number = o2.order_number => o1 = o2

\* two invocations have each persisted an order
C8_Witness == Cardinality(orders) = 2

----------------------------------------------------------------------------
(* C9.  Calling createOrder twice with the same valid input, however       *)
(* little time apart, makes both calls succeed, with different             *)
(* order_numbers and the same total_amount and tax_amount.  (Stated for    *)
(* two invocations that have ended and that no storage failure hit.)       *)

C9_SameInputTwice ==
    \A c, d \in Calls :
      (/\ c # d
       /\ call[c].input = call[d].input
       /\ ValidCart(call[c].input)
       /\ call[c].pc \in {"done", "failed"}
       /\ call[d].pc \in {"done", "failed"}
       /\ call[c].error.kind # "StorageFailure"
       /\ call[d].error.kind # "StorageFailure")
        => /\ call[c].pc = "done" /\ call[d].pc = "done"
           /\ call[c].result[1].order_number # call[d].result[1].order_number
           /\ call[c].result[1].total_amount = call[d].result[1].total_amount
           /\ call[c].result[1].tax_amount = call[d].result[1].tax_amount

----------------------------------------------------------------------------
(* C10.  When the order_number of an invocation is already that of an      *)
(* order, the insert step ends the invocation rejected, with an error for  *)
(* the caller, and changes neither orders nor order_items; an invocation   *)
(* rejected for the collision has no row in either table.                  *)

C10_RejectedHasNoRow ==
    /\ OrdersAreInserted
    /\ \A c \in Calls :
         (call[c].pc = "failed" /\ call[c].error.kind = "UniqueViolation")
           => ~ Inserted(c) /\ call[c].result = <<>>

C10_CollidingStep ==
    \A c \in Calls :
      (/\ call[c].pc = "insert_order"
       /\ \E o \in orders : o.order_number = call[c].orderNumber
       /\ call'[c] # call[c])
        => /\ call'[c].pc = "failed"
           /\ call'[c].error.kind \in PersistenceKinds
           /\ orders' = orders
           /\ order_items' = order_items

C10_CollisionFailsCleanly ==
    [] C10_RejectedHasNoRow /\ [][C10_CollidingStep]_vars

C10_Witness ==
    \E c \in Calls :
      /\ call[c].pc = "failed"
      /\ call[c].error.kind = "UniqueViolation"
      /\ \E o \in orders : o.order_number = call[c].orderNumber

----------------------------------------------------------------------------
(* C11.  The order that a successful createOrder returns is the row it     *)
(* persisted, the two amounts read back as numbers; its status is          *)
(* pending, its estimated_ready_time and customer_id are null, and its     *)
(* customer_name, customer_phone and special_instructions are those of     *)
(* the input, null kept as null.                                           *)

C11_ReturnedOrderIsPersisted ==
    \A c \in Calls :
      call[c].pc = "done" =>
        LET returned == call[c].result[1]
            input == call[c].input
        IN  /\ \E o \in orders :
                 /\ o.id = returned.id
                 /\ returned = [o EXCEPT !.total_amount = ParseFloat(o.total_amount),
                                         !.tax_amount = ParseFloat(o.tax_amount)]
            /\ returned.status = "pending"
            /\ returned.estimated_ready_time = NULL
            /\ returned.customer_id = NULL
            /\ returned.customer_name = input.customer_name
            /\ returned.customer_phone = input.customer_phone
            /\ returned.special_instructions = input.special_instructions

\* createOrder has returned an order placed under a name, and one placed
\* without a name
C11_Witness ==
    /\ \E c \in Calls : call[c].pc = "done" /\ call[c].result[1].customer_name = "John Doe"
    /\ \E c \in Calls : call[c].pc = "done" /\ call[c].result[1].customer_name = NULL

----------------------------------------------------------------------------
(* C12.  For an available item with a maximum of M extra shots, a line     *)
(* with extra_shots = M passes the check and a line with extra_shots =     *)
(* M + 1 is rejected with LimitExceeded carrying the name of the item and  *)
(* M; every persisted order item has extra_shots <= the maximum of its     *)
(* menu item.                                                              *)

\* the lines of the cart that the loop has gone past
PassedLines(cr) ==
    IF cr.pc \in {"insert_order", "insert_items", "done"}
    THEN 1 .. Len(cr.input.items)
    ELSE 1 .. cr.idx - 1

C12_ExtraShotsBoundary ==
    /\ \A r \in order_items :
         \A m \in menu_items : m.id = r.menu_item_id => r.extra_shots <= m.max_extra_shots
    /\ \A c \in Calls :
         LET cr == call[c]
         IN  /\ \A k \in PassedLines(cr) :
                  cr.input.items[k].extra_shots <= ItemOfLine(cr.input.items[k]).max_extra_shots
             /\ (cr.pc = "failed" /\ cr.error.kind \in ValidationKinds) =>
                  LET item == cr.input.items[cr.idx]
                  IN  \A m \in menu_items :
                        (m.id = item.menu_item_id /\ m.is_available) =>
                          /\ item.extra_shots > m.max_extra_shots
                          /\ cr.error = Err("LimitExceeded", 0, m.name, m.max_extra_shots)

\* a cart whose first line asks for exactly the maximum of its item and has
\* passed, and whose second line asks for one more than the maximum of its
\* item and is rejected
C12_Witness ==
    \E c \in Calls :
      /\ call[c].pc = "failed"
      /\ call[c].error.kind = "LimitExceeded"
      /\ call[c].idx = 2
      /\ LET first == call[c].input.items[1]
             second == call[c].input.items[2]
         IN  /\ first.extra_shots > 0
             /\ first.extra_shots = ItemOfLine(first).max_extra_shots
             /\ second.extra_shots = ItemOfLine(second).max_extra_shots + 1

----------------------------------------------------------------------------
(* C13.  Under any sequence of updateOrderStatus calls the status of an    *)
(* order changes only one step along pending, confirmed, preparing,        *)
(* ready, completed, or to cancelled from a status that is not terminal;   *)
(* an order that is completed or cancelled never changes status again.     *)

TerminalStatuses == {"completed", "cancelled"}

\* the step that the state machine allows from one status to another
LegalTransition(from, to) ==
    \/ <<from, to>> \in { <<"pending", "confirmed">>, <<"confirmed", "preparing">>,
                           <<"preparing", "ready">>, <<"ready", "completed">> }
    \/ (to = "cancelled" /\ from \notin TerminalStatuses)

C13_StatusFollowsStateMachine ==
    [][ \A o \in orders : \A n \in orders' :
          (n.id = o.id /\ n.status # o.status) => LegalTransition(o.status, n.status) ]_vars

----------------------------------------------------------------------------
(* C19.  updateOrderStatus writes only status, updated_at and, when the    *)
(* input has an estimated_ready_time, that field (a null clears it, a      *)
(* field left out keeps the stored value); order_number, the customer      *)
(* fields, special_instructions, total_amount, tax_amount and created_at   *)
(* stay as they are, and a call for an order id that no order has fails    *)
(* and changes no row.                                                     *)

\* the columns that updateOrderStatus leaves alone
C19_SameFrame(o, n) ==
    /\ n.order_number = o.order_number
    /\ n.customer_id = o.customer_id
    /\ n.customer_name = o.customer_name
    /\ n.customer_phone = o.customer_phone
    /\ n.special_instructions = o.special_instructions
    /\ n.total_amount = o.total_amount
    /\ n.tax_amount = o.tax_amount
    /\ n.created_at = o.created_at

\* a step of an updateOrderStatus call: the update writes the three fields
\* of its order and nothing else, no other step of the call writes at all
C19_StepKeepsFrame ==
    \A i \in Ops :
      (op[i].pc \in {"uos_select", "uos_update"} /\ op'[i] # op[i]) =>
        LET input == op[i].input
        IN  IF op'[i].pc = "done"
            THEN /\ { n.id : n \in orders' } = { o.id : o \in orders }
                 /\ \A o \in orders : \A n \in orders' :
                      n.id = o.id =>
                        IF o.id = input.id
                        THEN /\ C19_SameFrame(o, n)
                             /\ n.status = input.status
                             /\ n.updated_at = clock
                             /\ n.estimated_ready_time =
                                  IF input.estimated_ready_time = UNDEFINED
                                  THEN o.estimated_ready_time
                                  ELSE input.estimated_ready_time
                             /\ op'[i].result = <<ReturnedOrder(n)>>
                        ELSE n = o
            ELSE orders' = orders

\* a call for an order id that no order has fails at its select, and only
\* such a call does
C19_MissingOrderFailsStep ==
    \A i \in Ops :
      (op[i].pc = "uos_select" /\ op'[i] # op[i]) =>
        IF \E o \in orders : o.id = op[i].input.id
        THEN op'[i].pc = "uos_update"
        ELSE op'[i] = OpThrown(op[i], Err("OrderNotFound", op[i].input.id, "", 0))

\* no update is made, or about to be, for an order id that no order has
C19_MissingOrderNeverUpdated ==
    \A i \in Ops :
      (op[i].pc = "uos_update" \/ (op[i].pc = "done" /\ op[i].existing # <<>>)) =>
        \E o \in orders : o.id = op[i].input.id

C19_UpdateOrderStatusFrame ==
    /\ [] C19_MissingOrderNeverUpdated
    /\ [][C19_StepKeepsFrame /\ C19_MissingOrderFailsStep]_vars

\* a status update that left estimated_ready_time out has kept the time
\* that an earlier update stored, at a later date than the order was made
C19_Witness ==
    \E i \in Ops :
      /\ op[i].pc = "done"
      /\ op[i].input.estimated_ready_time = UNDEFINED
      /\ \E o \in orders :
           /\ o.id = op[i].input.id
           /\ o.estimated_ready_time = ReadyTime
           /\ o.status = op[i].input.status
           /\ o.updated_at > o.created_at

----------------------------------------------------------------------------
(* C14.  updatePaymentStatus with payment_status completed sets the        *)
(* status of the order of the payment to confirmed; with any other         *)
(* payment_status (pending, processing, failed, refunded) it leaves the    *)
(* status of the order, and every order, as it is.                         *)

\* the order that the payment of an updatePaymentStatus input belongs to
C14_OrderOfPayment(input) == (CHOOSE p \in payments : p.id = input.id).order_id

C14_StepOfUpdatePaymentStatus ==
    \A i \in Ops :
      (op[i].pc \in {"ups_select", "ups_update", "ups_confirm"} /\ op'[i] # op[i]) =>
        LET input == op[i].input
        IN  IF op[i].pc = "ups_confirm"
            THEN /\ input.payment_status = "completed"
                 /\ op'[i].pc = "done"
                 /\ \E o \in orders : o.id = C14_OrderOfPayment(input)
                 /\ { n.id : n \in orders' } = { o.id : o \in orders }
                 /\ \A o \in orders : \A n \in orders' :
                      n.id = o.id =>
                        IF o.id = C14_OrderOfPayment(input)
                        THEN n.status = "confirmed"
                        ELSE n = o
            ELSE /\ orders' = orders
                 /\ op[i].pc = "ups_update" =>
                      (op'[i].pc = IF input.payment_status = "completed"
                                   THEN "ups_confirm" ELSE "done")
                 /\ op[i].pc = "ups_select" => op'[i].pc \in {"ups_update", "failed"}

C14_CompletedPaymentConfirmsOrder == [][C14_StepOfUpdatePaymentStatus]_vars

\* a card payment, processing when created, has been updated to completed
\* and its order, pending until then, is confirmed
C14_Witness ==
    \E i \in Ops :
      /\ op[i].pc = "done"
      /\ op[i].existing # <<>>
      /\ "payment_status" \in DOMAIN op[i].input
      /\ op[i].input.payment_status = "completed"
      /\ op[i].existing[1].payment_status = "processing"
      /\ \E o \in orders : o.id = op[i].existing[1].order_id /\ o.status = "confirmed"

----------------------------------------------------------------------------
(* C15.  createPayment sets the status of the new payment from the         *)
(* payment method alone: cash and qr_code give completed, credit_card,     *)
(* debit_card and mobile_wallet give processing; a new payment is never    *)
(* pending, failed or refunded.                                            *)

\* the status that the contract gives a new payment of a method
C15_StatusOfMethod(method) ==
    IF method \in {"cash", "qr_code"} THEN "completed" ELSE "processing"

C15_NewPayment ==
    \A n \in payments' :
      (~ \E p \in payments : p.id = n.id) =>
        /\ n.payment_method \in paymentMethodEnum
        /\ n.payment_status = C15_StatusOfMethod(n.payment_method)
        /\ n.payment_status \notin {"pending", "failed", "refunded"}
        /\ \E i \in Ops :
             /\ op[i].pc = "cp_insert"
             /\ n.payment_method = op[i].input.payment_method
             /\ op'[i].pc = "done"
             /\ op'[i].result[1].payment_status = n.payment_status

C15_StatusFromMethod == [][C15_NewPayment]_vars

\* createPayment has returned a mobile wallet payment
C15_Witness ==
    \E i \in Ops :
      /\ op[i].pc = "done"
      /\ "order_id" \in DOMAIN op[i].input
      /\ op[i].input.payment_method = "mobile_wallet"
      /\ op[i].result[1].payment_status = "processing"
      /\ \E p \in payments : p.id = op[i].result[1].id /\ p.payment_status = "processing"

----------------------------------------------------------------------------
(* C16.  createPayment fails and inserts no payment row when the order it  *)
(* names does not exist or when the amount differs from the total_amount   *)
(* of the order by more than 0.01; it goes on to insert the payment when   *)
(* the order exists and the difference is at most 0.01.                    *)

\* the contract's reason to refuse a payment; the amount is in tenths of a
\* cent and the total in cents
C16_Refused(input) ==
    \/ ~ \E o \in orders : o.id = input.order_id
    \/ \E o \in orders :
         /\ o.id = input.order_id
         /\ Abs(input.amount - 10 * o.total_amount) > 10

C16_StepOfChecks ==
    \A i \in Ops :
      (op[i].pc = "cp_select" /\ op'[i] # op[i]) =>
        /\ payments' = payments
        /\ op'[i].pc = IF C16_Refused(op[i].input) THEN "failed" ELSE "cp_insert"

C16_AmountWithinOneCent == [][C16_StepOfChecks]_vars

----------------------------------------------------------------------------
(* C20.  updatePaymentStatus keeps the stored transaction_id and           *)
(* payment_gateway_response when the input leaves them out, never changes  *)
(* the order_id, amount or payment_method of the payment, and a call for   *)
(* a payment id that no payment has fails and changes no payment and no    *)
(* order.                                                                  *)

\* the payment after the update, by the contract
C20_Updated(p, n, input) ==
    /\ n.order_id = p.order_id
    /\ n.amount = p.amount
    /\ n.payment_method = p.payment_method
    /\ n.created_at = p.created_at
    /\ n.payment_status = input.payment_status
    /\ n.transaction_id =
         IF input.transaction_id = UNDEFINED THEN p.transaction_id
         ELSE input.transaction_id
    /\ n.payment_gateway_response =
         IF input.payment_gateway_response = UNDEFINED THEN p.payment_gateway_response
         ELSE input.payment_gateway_response

C20_StepKeepsFrame ==
    \A i \in Ops :
      (op[i].pc \in {"ups_select", "ups_update", "ups_confirm"} /\ op'[i] # op[i]) =>
        LET input == op[i].input
        IN  /\ op[i].pc = "ups_select" =>
                 /\ payments' = payments
                 /\ orders' = orders
                 /\ IF \E p \in payments : p.id = input.id
                    THEN op'[i].pc = "ups_update"
                    ELSE op'[i] = OpThrown(op[i], Err("PaymentNotFound", input.id, "", 0))
            /\ op[i].pc = "ups_update" =>
                 /\ { n.id : n \in payments' } = { p.id : p \in payments }
                 /\ \E p \in payments : p.id = input.id
                 /\ \A p \in payments : \A n \in payments' :
                      n.id = p.id =>
                        IF p.id = input.id
                        THEN /\ C20_Updated(p, n, input)
                             /\ op'[i].result = <<ReturnedPayment(n)>>
                        ELSE n = p
            /\ op[i].pc = "ups_confirm" => payments' = payments

C20_UpdatePaymentStatusFrame == [][C20_StepKeepsFrame]_vars

\* a cash payment has been updated to refunded by an input without the two
\* optional fields, and still has the transaction id and the gateway
\* response it was created with
C20_Witness ==
    \E i \in Ops :
      /\ op[i].pc = "done"
      /\ "payment_status" \in DOMAIN op[i].input
      /\ op[i].input.payment_status = "refunded"
      /\ op[i].input.transaction_id = UNDEFINED
      /\ op[i].input.payment_gateway_response = UNDEFINED
      /\ \E p \in payments :
           /\ p.id = op[i].input.id
           /\ p.payment_status = "refunded"
           /\ p.transaction_id = "TXN-001"
           /\ p.payment_gateway_response = "Cash payment received"

----------------------------------------------------------------------------
(* C17.  After any sequence of createSizePricing calls, two concurrent     *)
(* calls for the same menu item and size included, at most one size        *)
(* pricing row exists per menu item and size; a call for a pair that is    *)
(* already configured, or for a menu item that does not exist, fails and   *)
(* inserts nothing.                                                        *)

C17_OneRowPerItemAndSize ==
    \A a, b \in size_pricing :
      (a.menu_item_id = b.menu_item_id /\ a.size = b.size) => a = b

----------------------------------------------------------------------------
(* C18 *)

\* the order item rows of an order
C18_ItemsOf(o) == { oi \in order_items : oi.order_id = o.id }

----------------------------------------------------------------------------
(* C21.  updateMenuItem changes exactly the fields present in its input (a *)
(* provided null clears description or image_url) plus updated_at; every   *)
(* omitted field, the id, category_id and created_at keep their values,    *)
(* and a call for an id that no menu item has fails and changes no menu    *)
(* item.                                                                   *)

\* the value that the update stores for a provided field
C21_Stored(input, f) ==
    IF f = "base_price" THEN ToNumeric(Amount(input[f])) ELSE input[f]

\* a step of an updateMenuItem call: the update writes the provided fields
\* and updated_at of its row and nothing else, no other step writes at all
C21_StepKeepsFrame ==
    \A i \in Ops :
      (op[i].pc \in {"umi_select", "umi_update"} /\ op'[i] # op[i]) =>
        LET input == op[i].input
        IN  IF op'[i].pc = "done"
            THEN /\ { n.id : n \in menu_items' } = { o.id : o \in menu_items }
                 /\ \A o \in menu_items : \A n \in menu_items' :
                      n.id = o.id =>
                        IF o.id = input.id
                        THEN /\ n.category_id = o.category_id
                             /\ n.created_at = o.created_at
                             /\ n.updated_at = clock
                             /\ \A f \in CopiedFields \cup {"base_price"} :
                                  n[f] = IF Provided(input, f)
                                         THEN C21_Stored(input, f) ELSE o[f]
                             /\ op'[i].result = <<ReturnedMenuItem(n)>>
                        ELSE n = o
            ELSE menu_items' = menu_items

\* a call for an id that no menu item has fails at its select, and only
\* such a call does
C21_MissingItemFailsStep ==
    \A i \in Ops :
      (op[i].pc = "umi_select" /\ op'[i] # op[i]) =>
        IF \E o \in menu_items : o.id = op[i].input.id
        THEN op'[i].pc = "umi_update"
        ELSE op'[i] = OpThrown(op[i], Err("MenuItemNotFound", op[i].input.id, "", 0))

C21_UpdateMenuItemFrame == [][C21_StepKeepsFrame /\ C21_MissingItemFailsStep]_vars

\* an update that sent only a new name has ended, at a later date than the
\* item was made, on an item whose description an earlier update replaced
C21_Witness ==
    \E i \in Ops :
      /\ op[i].pc = "done"
      /\ DOMAIN op[i].input = {"id", "name"}
      /\ \E m \in menu_items :
           /\ m.id = op[i].input.id
           /\ m.name = op[i].input.name
           /\ m.description = "Freshly brewed"
           /\ m.updated_at > m.created_at

----------------------------------------------------------------------------
(* C22.  createMenuCategory rejects an input whose (name, sort_order) pair *)
(* equals that of an existing category and inserts nothing, and accepts an *)
(* input that differs from every existing category in name or in          *)
(* sort_order; so after any sequence of createMenuCategory calls no two    *)
(* categories share both name and sort_order.                              *)

\* a step of a createMenuCategory call: an input whose pair a category has
\* is refused at the select, any other input goes on to the insert, and
\* only the insert writes, one row made of the input
C22_StepOfCreateMenuCategory ==
    \A i \in Ops :
      (op[i].pc \in {"cmc_select", "cmc_insert"} /\ op'[i] # op[i]) =>
        LET input == op[i].input
            taken == \E r \in menu_categories :
                        r.name = input.name /\ r.sort_order = input.sort_order
        IN  IF op[i].pc = "cmc_select"
            THEN /\ menu_categories' = menu_categories
                 /\ op'[i].pc = IF taken THEN "failed" ELSE "cmc_insert"
            ELSE /\ op'[i].pc = "done"
                 /\ \E n \in menu_categories' \ menu_categories :
                      /\ menu_categories' = menu_categories \cup {n}
                      /\ n.name = input.name
                      /\ n.sort_order = input.sort_order
                      /\ op'[i].result = <<n>>

\* no two categories share both name and sort_order
C22_PairsUnique ==
    \A a \in menu_categories : \A b \in menu_categories :
      (a.name = b.name /\ a.sort_order = b.sort_order) => a = b

C22_NoDuplicateCategories ==
    /\ [] C22_PairsUnique
    /\ [][C22_StepOfCreateMenuCategory]_vars

\* a call has been refused for the pair of a category made by an earlier
\* call, next to a category of the same name and another sort order
C22_Witness ==
    \E i \in Ops :
      /\ op[i].pc = "failed"
      /\ \E a \in menu_categories : \E b \in menu_categories :
           /\ a.id > 1
           /\ a.name = op[i].input.name
           /\ a.sort_order = op[i].input.sort_order
           /\ b.name = a.name
           /\ b.sort_order # a.sort_order

----------------------------------------------------------------------------
(* C23 *)

\* the unit price of a cart line computed from the catalog as it stands
C23_UnitPriceNow(item) ==
    IF ModifiersOfLine(item) = {}
    THEN {WithExtraShots(ParseFloat(ItemOfLine(item).base_price), item.extra_shots)}
    ELSE { WithExtraShots(FAdd(ParseFloat(ItemOfLine(item).base_price),
                               ParseFloat(sp.price_modifier)), item.extra_shots) :
             sp \in ModifiersOfLine(item) }

\* a cart line and its priced line are valid against the catalog as it
\* stands
C23_ValidNow(item, priced) ==
    /\ \E m \in menu_items : m.id = item.menu_item_id
    /\ ItemOfLine(item).is_available
    /\ item.extra_shots <= Max(ItemOfLine(item).max_extra_shots, 0)
    /\ priced.unit_price \in C23_UnitPriceNow(item)

\* the step of createOrder that writes the order row
C23_StepThatWritesOrder ==
    \A c \in Calls :
      (call[c].pc = "insert_order" /\ call'[c].pc = "insert_items") =>
        \A k \in 1 .. Len(call[c].input.items) :
          C23_ValidNow(call[c].input.items[k], call[c].orderItemsData[k])

\* C23: when createOrder runs concurrently with updateMenuItem calls, every
\* order it persists was valid against the catalog as it stood when the
\* order was written: each ordered item was available, each line's
\* extra_shots was within the item's max_extra_shots, and unit_price was
\* computed from the base_price the item had at that moment.
C23_ValidWhenWritten == [][C23_StepThatWritesOrder]_vars

----------------------------------------------------------------------------
(* C24 *)

\* the statuses of an order that is past confirmed
C24_PastConfirmed == {"preparing", "ready", "completed", "cancelled"}

\* the step of updatePaymentStatus that follows a completed payment
C24_StepAfterCompletion ==
    \A i \in Ops :
      (op[i].pc = "ups_confirm" /\ op'[i].pc = "done") =>
        \A o \in orders :
          (o.id = op[i].existing[1].order_id /\ o.status \in C24_PastConfirmed) =>
            \E n \in orders' : n.id = o.id /\ n.status = o.status

\* C24: updatePaymentStatus never moves an order backwards in its
\* lifecycle: completing a payment for an order that is already preparing,
\* ready, completed or cancelled leaves that order's status unchanged.
C24_NeverBackwards == [][C24_StepAfterCompletion]_vars

----------------------------------------------------------------------------
(* C25 *)

\* C25: in every reachable state, an order that has a payment with
\* payment_status completed does not have status pending, whether the
\* payment became completed through createPayment (cash, qr_code) or
\* through updatePaymentStatus.
C25_PaidOrderNotPending ==
    \A p \in payments : \A o \in orders :
      (p.order_id = o.id /\ p.payment_status = "completed") => o.status # "pending"

----------------------------------------------------------------------------
(* C26 *)

\* the completed payments of an order
C26_Completed(o) ==
    { p \in payments : p.order_id = o.id /\ p.payment_status = "completed" }

RECURSIVE C26_SumAmount(_)
C26_SumAmount(rows) ==
    IF rows = {} THEN 0
    ELSE LET r == CHOOSE x \in rows : TRUE
         IN  r.amount + C26_SumAmount(rows \ {r})

\* C26: after any sequence of createPayment and updatePaymentStatus calls,
\* an order has at most one payment with payment_status completed, so the
\* completed payments of an order never sum to more than its total_amount
\* (plus the 0.01 tolerance), in cents.
C26_AtMostOneCompletedPayment ==
    \A o \in orders :
      /\ Cardinality(C26_Completed(o)) <= 1
      /\ C26_SumAmount(C26_Completed(o)) <= o.total_amount + 1

----------------------------------------------------------------------------
(* C30.  createOrder, whether it succeeds or fails, creates no payment row *)
(* and changes no menu item, menu category or size-pricing row; the        *)
(* input's payment_method has no effect on the persisted order or its      *)
(* items.                                                                  *)

\* no step of createOrder writes to payments or to the catalog
C30_StepKeepsFrame ==
    (call' # call) =>
        /\ payments' = payments
        /\ menu_items' = menu_items
        /\ menu_categories' = menu_categories
        /\ size_pricing' = size_pricing

\* the invocation as it would stand had the input named the method
C30_Paying(cr, method) == [cr EXCEPT !.input = WithPaymentMethod(cr.input, method)]

\* the rows that an invocation has written are those of the same cart sent
\* with any other payment method
C30_RowsIgnoreMethod ==
    \A c \in Calls :
      Inserted(c) =>
        LET order == call[c].orderResult[1]
        IN  /\ order \in orders
            /\ \A method \in paymentMethodEnum :
                 order = NewOrder(C30_Paying(call[c], method), order.id, order.created_at)
            /\ \A r \in ItemsOf(order.id) :
                 \E k \in 1 .. Len(call[c].input.items) :
                   LET item == call[c].input.items[k]
                       priced == call[c].orderItemsData[k]
                   IN  /\ r.menu_item_id = item.menu_item_id
                       /\ r.quantity = item.quantity
                       /\ r.size = item.size
                       /\ r.milk_type = item.milk_type
                       /\ r.extra_shots = item.extra_shots
                       /\ r.special_instructions = item.special_instructions
                       /\ r.unit_price = ToNumeric(priced.unit_price)
                       /\ r.total_price = ToNumeric(priced.total_price)

C30_CreateOrderFrame ==
    /\ [] C30_RowsIgnoreMethod
    /\ [][C30_StepKeepsFrame]_vars

\* an order paid in cash has been persisted with its items, and no payment
\* exists
C30_Witness ==
    \E c \in Calls :
      /\ call[c].pc = "done"
      /\ call[c].input.payment_method = "cash"
      /\ Cardinality(ItemsOf(call[c].orderResult[1].id)) = 2
      /\ payments = {}

----------------------------------------------------------------------------
(* C27 *)

\* the order that the server has made of the submitted cart, not yet
\* handed to the client
C27_OrderMade == ui.pc = "awaiting" /\ call[1].pc = "done"

\* the unit price shown for a cart line is the unit_price of its row
C27_SameUnitPrices ==
    C27_OrderMade =>
      \A k \in 1 .. Len(ui.submitted) :
        ToFixed2(ui.submitted[k].unitPrice)
          = ItemRow(call[1].orderResult[1].id, k).unit_price

\* the total shown on the Place Order button is the total_amount of the
\* order
C27_SameTotal ==
    C27_OrderMade =>
      ToFixed2(CartTotal(ui.submitted)) = call[1].orderResult[1].total_amount

\* C27: for every cart selection, the unit price the client computes and
\* shows (MenuItemCustomizer.calculatePrice) equals the unit_price the
\* server persists for that selection, and the total shown on the Place
\* Order button equals the total_amount of the order that createOrder
\* creates from that cart.
C27_ClientAndServerAgree == C27_SameUnitPrices /\ C27_SameTotal

----------------------------------------------------------------------------
(* C28.  After any sequence of addToCart, updateCartItem (as issued by the *)
(* cart's quantity buttons), removeFromCart and clearCart, every cart line *)
(* has quantity >= 1 and totalPrice = quantity x unitPrice, and no two     *)
(* lines have the same (menuItemId, size, milkType, extraShots,            *)
(* specialInstructions), since adding an identical selection increases the *)
(* existing line's quantity.                                               *)

C28_CartInvariant ==
    /\ \A i \in 1 .. Len(cart) :
         /\ cart[i].quantity >= 1
         /\ cart[i].totalPrice = FMul(Num(cart[i].quantity), cart[i].unitPrice)
    /\ \A i \in 1 .. Len(cart) : \A j \in 1 .. Len(cart) :
         SameSelection(cart[i], cart[j]) => i = j

\* a click that adds a selection the cart has adds its quantity to the
\* line of that selection and leaves the number of lines as it is
C28_AddingMerges ==
    (cart' # cart /\ Len(cart') = Len(cart) /\ Len(cart) > 0) =>
        \A i \in 1 .. Len(cart) :
          /\ SameSelection(cart'[i], cart[i])
          /\ cart'[i].unitPrice = cart[i].unitPrice

C28_ClientCart ==
    /\ [] C28_CartInvariant
    /\ [][C28_AddingMerges]_vars

\* a line with oat milk was added to a cart whose first line has reached
\* the quantity 2
C28_Witness ==
    /\ Len(cart) = 2
    /\ cart[1].quantity = 2
    /\ cart[2].quantity = 1
    /\ cart[2].milkType = "oat"

----------------------------------------------------------------------------
(* C29.  Checkout in the client: when createOrder succeeds the cart is     *)
(* emptied and the current order becomes the returned order; when          *)
(* createOrder fails the cart, the customer fields and the current order   *)
(* are unchanged; in both cases isSubmitting eventually returns to false,  *)
(* and no second createOrder is issued from the button while isSubmitting  *)
(* is true.                                                                *)

\* the step of handleCheckout that follows the answer of the server
C29_AnswerHandled ==
    (ui.pc = "awaiting" /\ ui'.pc = "idle") =>
        /\ ~ ui'.isSubmitting
        /\ IF call[1].pc = "done"
           THEN /\ cart' = <<>>
                /\ ui'.currentOrder = <<call[1].result[1]>>
                /\ \E o \in orders : call[1].result[1] = ReturnedOrder(o)
           ELSE /\ call[1].pc = "failed"
                /\ cart' = cart
                /\ ui'.customerName = ui.customerName
                /\ ui'.customerPhone = ui.customerPhone
                /\ ui'.specialInstructions = ui.specialInstructions
                /\ ui'.paymentMethod = ui.paymentMethod
                /\ ui'.currentOrder = ui.currentOrder

\* while isSubmitting is true no request is made: the cart that was
\* submitted stays the one of the click, and the server is handed it once
C29_NoSecondRequest ==
    ui.isSubmitting =>
        /\ ui'.isSubmitting => ui'.submitted = ui.submitted
        /\ (call[1].pc = "idle" /\ call'[1].pc # "idle") =>
               call'[1].input = CheckoutInput(ui)

\* isSubmitting is true exactly while the answer is awaited
C29_SubmittingWhileAwaiting == ui.isSubmitting <=> ui.pc = "awaiting"

C29_Checkout ==
    /\ [] C29_SubmittingWhileAwaiting
    /\ [][C29_AnswerHandled /\ C29_NoSecondRequest]_vars
    /\ (ui.isSubmitting ~> ~ ui.isSubmitting)

\* an order has been placed: the cart and the form are empty again and the
\* current order is the one that the store holds
C29_Witness ==
    /\ ui.currentOrder # <<>>
    /\ \E o \in orders : ui.currentOrder = <<ReturnedOrder(o)>>
    /\ cart = <<>>
    /\ ui.customerName = ""
    /\ ~ ui.isSubmitting

====
